---- MODULE Spec2Model ----
(***************************************************************************)
(* Verification development for near-groth16-sdk.                          *)
(*                                                                         *)
(* Part 1 models the Groth16 verifier of lib/src/verifier.rs and the point *)
(* codecs of lib/src/types.rs against the three host precompiles           *)
(* (alt_bn128_g1_multiexp, alt_bn128_g1_sum, alt_bn128_pairing_check),     *)
(* whose answers are chosen by the environment.                            *)
(*                                                                         *)
(* Part 2 models the contract templates built on the verifier.  One of    *)
(* them is deployed; its methods are called in any order by any account.  *)
(* A call that panics leaves the contract state as it was.                *)
(***************************************************************************)
EXTENDS Integers, Sequences, FiniteSets, TLC

\* ------------------------------------------------------------------------
\* Bounds of the model
\* ------------------------------------------------------------------------
\* longest public-input vector handed to verify
MaxInputs == 2
\* longest IC array of a verification key
MaxIC == 3
\* number of distinct notes (commitment / nullifier pairs) users hold
MaxNotes == 2
\* largest amount attached to a deposit
MaxAmount == 2
\* number of polls created in a VotingContract
MaxPolls == 2
\* latest block time, in hours since the contract was deployed
MaxTime == 1

\* ------------------------------------------------------------------------
\* U256 (types.rs construct_uint! U256(4)): four little-endian 64-bit limbs,
\* held here as their 32 bytes, least significant byte first.
\* ------------------------------------------------------------------------
WordBytes == 32

G1Bytes == 64

G2Bytes == 128

U256 == [1..WordBytes -> 0..255]

\* U256::from(u64) for the small values the model draws
FromU64(n) == [i \in 1..WordBytes |-> IF i <= 3 THEN (n \div (256 ^ (i - 1))) % 256 ELSE 0]

U256_zero == [i \in 1..WordBytes |-> 0]

U256_is_zero(v) == \A i \in 1..WordBytes : v[i] = 0

\* to_big_endian: most significant byte first
to_be_bytes(v) == [i \in 1..WordBytes |-> v[WordBytes + 1 - i]]

\* from_big_endian of a 32-byte slice
from_be_bytes(b) == [i \in 1..WordBytes |-> b[WordBytes + 1 - i]]

\* to_little_endian: least significant byte first
to_little_endian(v) == [i \in 1..WordBytes |-> v[i]]

\* borrow out of the low i bytes of a - b
RECURSIVE BorrowOut(_, _, _)
BorrowOut(a, b, i) ==
    IF i = 0 THEN 0
    ELSE IF a[i] - b[i] - BorrowOut(a, b, i - 1) < 0 THEN 1 ELSE 0

\* uint's overflowing_sub: the wrapped difference and the overflow flag
overflowing_sub(a, b) ==
    [val |-> [i \in 1..WordBytes |-> (a[i] - b[i] - BorrowOut(a, b, i - 1)) % 256],
     overflow |-> BorrowOut(a, b, WordBytes) = 1]

\* BN254 base-field modulus q (types.rs:205-207), least significant byte first
field_modulus ==
    <<71, 253, 124, 216, 22, 140, 32, 60, 141, 202, 113, 104, 145, 106, 129, 151,
      93, 88, 129, 129, 182, 69, 80, 184, 41, 160, 49, 225, 114, 78, 100, 48>>

\* ------------------------------------------------------------------------
\* Curve points (types.rs)
\* ------------------------------------------------------------------------
G1(px, py) == [x |-> px, y |-> py]

G2(x0, x1, y0, y1) == [x |-> <<x0, x1>>, y |-> <<y0, y1>>]

G1_is_zero(p) == U256_is_zero(p.x) /\ U256_is_zero(p.y)

G1_to_bytes(p) == to_be_bytes(p.x) \o to_be_bytes(p.y)

G1_from_bytes(b) ==
    [x |-> from_be_bytes(SubSeq(b, 1, 32)), y |-> from_be_bytes(SubSeq(b, 33, 64))]

\* G2Point::to_bytes writing the real parts first
G2_to_bytes_real_first(p) ==
    to_be_bytes(p.x[1]) \o to_be_bytes(p.x[2]) \o to_be_bytes(p.y[1]) \o to_be_bytes(p.y[2])

\* G2Point::to_bytes: x[1], x[0], y[1], y[0]
G2_to_bytes(p) ==
    to_be_bytes(p.x[2]) \o to_be_bytes(p.x[1]) \o to_be_bytes(p.y[2]) \o to_be_bytes(p.y[1])

\* G2Point::from_bytes reading the real parts first
G2_from_bytes_real_first(b) ==
    [x |-> <<from_be_bytes(SubSeq(b, 1, 32)), from_be_bytes(SubSeq(b, 33, 64))>>,
     y |-> <<from_be_bytes(SubSeq(b, 65, 96)), from_be_bytes(SubSeq(b, 97, 128))>>]

\* G2Point::from_bytes: x[0] from bytes [32..64), x[1] from [0..32), y[0] from
\* [96..128), y[1] from [64..96)
G2_from_bytes(b) ==
    [x |-> <<from_be_bytes(SubSeq(b, 33, 64)), from_be_bytes(SubSeq(b, 1, 32))>>,
     y |-> <<from_be_bytes(SubSeq(b, 97, 128)), from_be_bytes(SubSeq(b, 65, 96))>>]

\* negate_g1: [panic |-> TRUE] stands for the abort of U256's checked subtraction
negate_g1(p) ==
    IF G1_is_zero(p) THEN [panic |-> FALSE, point |-> p]
    ELSE LET d == overflowing_sub(field_modulus, p.y)
         IN  [panic |-> d.overflow, point |-> [x |-> p.x, y |-> d.val]]

\* VerificationKey::num_inputs: ic.len().saturating_sub(1)
num_inputs(k) == IF Len(k.ic) >= 1 THEN Len(k.ic) - 1 ELSE 0

\* ------------------------------------------------------------------------
\* The verifier (verifier.rs).  host = [msm, sum, pair] holds the answers
\* the three precompiles give during one call of verify.
\* ------------------------------------------------------------------------
None == [some |-> FALSE, point |-> G1(U256_zero, U256_zero), calls |-> <<>>]

Some(p) == [some |-> TRUE, point |-> p, calls |-> <<>>]

HostCall(f, a) == [fn |-> f, arg |-> a]

\* the loop without its zero-input skip (lines 124-126 removed)
RECURSIVE multiexp_loop_no_skip(_, _, _, _)
multiexp_loop_no_skip(k, inputs, i, buf) ==
    IF i >= Len(inputs) THEN [ok |-> TRUE, buf |-> buf]
    ELSE IF i + 1 >= Len(k.ic) THEN [ok |-> FALSE, buf |-> buf]
    ELSE multiexp_loop_no_skip(k, inputs, i + 1,
                       buf \o to_little_endian(inputs[i + 1]) \o G1_to_bytes(k.ic[i + 2]))

\* the for loop of compute_vk_x, from (0-based) index i with the buffer built so far
RECURSIVE multiexp_loop(_, _, _, _)
multiexp_loop(k, inputs, i, buf) ==
    IF i >= Len(inputs) THEN [ok |-> TRUE, buf |-> buf]
    ELSE IF i + 1 >= Len(k.ic) THEN [ok |-> FALSE, buf |-> buf]
    ELSE IF U256_is_zero(inputs[i + 1]) THEN multiexp_loop(k, inputs, i + 1, buf)
    ELSE multiexp_loop(k, inputs, i + 1,
                       buf \o to_little_endian(inputs[i + 1]) \o G1_to_bytes(k.ic[i + 2]))

\* add_g1_points without its length check (lines 167-169 removed)
add_g1_points_no_length_check(p1, p2, host) ==
    [Some(G1_from_bytes(host.sum)) EXCEPT
        !.calls = <<HostCall("g1_sum", G1_to_bytes(p1) \o G1_to_bytes(p2))>>]

\* Verifier::add_g1_points: None when the host's answer is not 64 bytes long
add_g1_points(p1, p2, host) ==
    LET input == G1_to_bytes(p1) \o G1_to_bytes(p2)
        call == HostCall("g1_sum", input)
    IN  IF Len(host.sum) # G1Bytes
        THEN [None EXCEPT !.calls = <<call>>]
        ELSE [Some(G1_from_bytes(host.sum)) EXCEPT !.calls = <<call>>]

compute_vk_x(k, inputs, host) ==
    IF Len(k.ic) = 0 THEN None
    ELSE IF Len(inputs) = 0 THEN Some(k.ic[1])
    ELSE LET l == multiexp_loop(k, inputs, 0, <<>>)
             call == HostCall("g1_multiexp", l.buf)
         IN  IF ~l.ok THEN None
             ELSE IF l.buf = <<>> THEN Some(k.ic[1])
             ELSE IF Len(host.msm) # G1Bytes THEN [None EXCEPT !.calls = <<call>>]
             ELSE LET s == add_g1_points(k.ic[1], G1_from_bytes(host.msm), host)
                  IN  [s EXCEPT !.calls = <<call>> \o s.calls]

\* Verifier::pairing_check; ret is "true", "false" or "panic"
pairing_check(k, proof, x, host) ==
    LET neg_a == negate_g1(proof.a)
        pairing_input ==
            G1_to_bytes(neg_a.point) \o G2_to_bytes(proof.b)
            \o G1_to_bytes(k.alpha) \o G2_to_bytes(k.beta)
            \o G1_to_bytes(x) \o G2_to_bytes(k.gamma)
            \o G1_to_bytes(proof.c) \o G2_to_bytes(k.delta)
    IN  IF neg_a.panic THEN [ret |-> "panic", calls |-> <<>>]
        ELSE [ret |-> IF host.pair THEN "true" ELSE "false",
              calls |-> <<HostCall("pairing_check", pairing_input)>>]

\* verify without its input-count check (lines 57-59 removed)
verify_no_count_check(k, inputs, proof, host) ==
    LET x == compute_vk_x(k, inputs, host)
    IN  IF ~x.some THEN [ret |-> "false", calls |-> x.calls, x |-> x]
        ELSE LET pc == pairing_check(k, proof, x.point, host)
             IN  [ret |-> pc.ret, calls |-> x.calls \o pc.calls, x |-> x]

\* Verifier::verify: the value returned, the host calls made, and vk_x
verify(k, inputs, proof, host) ==
    IF Len(inputs) # num_inputs(k)
    THEN [ret |-> "false", calls |-> <<>>, x |-> None]
    ELSE LET x == compute_vk_x(k, inputs, host)
         IN  IF ~x.some THEN [ret |-> "false", calls |-> x.calls, x |-> x]
             ELSE LET pc == pairing_check(k, proof, x.point, host)
                  IN  [ret |-> pc.ret, calls |-> x.calls \o pc.calls, x |-> x]

\* ------------------------------------------------------------------------
\* Values the verifier model draws its inputs from
\* ------------------------------------------------------------------------
SeqsUpTo(S, n) == UNION {[1..m -> S] : m \in 0..n}

Scalars == {U256_zero, FromU64(1), FromU64(2)}

ICPoints == {G1(FromU64(1), FromU64(2)), G1(FromU64(3), FromU64(4))}

\* q + 1: a coordinate above the base-field modulus
QPlusOne == [field_modulus EXCEPT ![1] = 72]

ProofAs == {G1(U256_zero, U256_zero), G1(FromU64(1), FromU64(2)),
            G1(FromU64(1), field_modulus), G1(FromU64(1), QPlusOne)}

VKs == {[alpha |-> G1(FromU64(21), FromU64(22)),
         beta |-> G2(FromU64(23), FromU64(24), FromU64(25), FromU64(26)),
         gamma |-> G2(FromU64(27), FromU64(28), FromU64(29), FromU64(30)),
         delta |-> G2(FromU64(31), FromU64(32), FromU64(33), FromU64(34)),
         ic |-> s] : s \in SeqsUpTo(ICPoints, MaxIC)}

Proofs == {[a |-> pa,
            b |-> G2(FromU64(41), FromU64(42), FromU64(43), FromU64(44)),
            c |-> G1(FromU64(45), FromU64(46))] : pa \in ProofAs}

Hosts == {[msm |-> m, sum |-> s, pair |-> b] :
            m \in {G1_to_bytes(G1(FromU64(51), FromU64(52))), [i \in 1..63 |-> 0]},
            s \in {G1_to_bytes(G1(FromU64(53), FromU64(54))), [i \in 1..65 |-> 0]},
            b \in BOOLEAN}

\* ------------------------------------------------------------------------
\* Decimal strings (sequences of characters) and their parsing
\* ------------------------------------------------------------------------
DigitValue ==
    [c \in {"0", "1", "2", "3", "4", "5", "6", "7", "8", "9"} |->
        CASE c = "0" -> 0 [] c = "1" -> 1 [] c = "2" -> 2 [] c = "3" -> 3 [] c = "4" -> 4
          [] c = "5" -> 5 [] c = "6" -> 6 [] c = "7" -> 7 [] c = "8" -> 8 [] c = "9" -> 9]

\* the character of a digit 0..9
Digit(d) == <<"0", "1", "2", "3", "4", "5", "6", "7", "8", "9">>[d + 1]

\* F on the value of v, with v evaluated once
Bind(v, F(_)) == CHOOSE out \in {F(x) : x \in {v}} : TRUE

\* res * 10 + digit from byte i on, up to three bytes at a time (the product
\* of three bytes by 10 fits the 32-bit integers of TLC); carry is what does
\* not fit
RECURSIVE mul10_add(_, _, _, _)
mul10_add(v, i, carry, acc) ==
    IF i > WordBytes THEN [val |-> acc, carry |-> carry]
    ELSE LET n == IF i + 2 <= WordBytes THEN 3 ELSE WordBytes - i + 1
             limb == v[i] + (IF n >= 2 THEN 256 * v[i + 1] ELSE 0)
                          + (IF n >= 3 THEN 65536 * v[i + 2] ELSE 0)
             t == limb * 10 + carry
         IN  mul10_add(v, i + n, t \div (256 ^ n),
                       acc \o [k \in 1..n |-> (t \div (256 ^ (k - 1))) % 256])

\* one round of the loop of U256::from_dec_str on the result r so far and the
\* character at i: r itself after an Err, Err on a non-digit character or
\* when val * 10 + digit does not fit 256 bits
from_dec_str_round(r, s, i) ==
    IF ~r.ok THEN r
    ELSE IF s[i] \notin DOMAIN DigitValue THEN [ok |-> FALSE, val |-> U256_zero]
    ELSE Bind(mul10_add(r.val, 1, DigitValue[s[i]], <<>>),
              LAMBDA m : IF m.carry > 0 THEN [ok |-> FALSE, val |-> U256_zero]
                         ELSE [ok |-> TRUE, val |-> m.val])

\* the rounds for the characters lo..hi in order, on the result r so far:
\* those of the first half, then those of the second on their result
RECURSIVE from_dec_str_rounds(_, _, _, _)
from_dec_str_rounds(r, s, lo, hi) ==
    IF lo = hi THEN from_dec_str_round(r, s, lo)
    ELSE Bind(from_dec_str_rounds(r, s, lo, (lo + hi) \div 2),
              LAMBDA m : from_dec_str_rounds(m, s, (lo + hi) \div 2 + 1, hi))

\* U256::from_dec_str: the loop from character i on, with res so far
from_dec_str_loop(s, i, res) ==
    IF i > Len(s) THEN [ok |-> TRUE, val |-> res]
    ELSE from_dec_str_rounds([ok |-> TRUE, val |-> res], s, i, Len(s))

\* u128::try_from(U256): fails when a byte above the low 16 is set.  The
\* amounts of the model fit in three bytes.
u128_try_from(v) ==
    [ok |-> \A i \in 17..WordBytes : v[i] = 0,
     val |-> v[1] + 256 * v[2] + 65536 * v[3]]

\* ------------------------------------------------------------------------
\* Values the template models draw their inputs from
\* ------------------------------------------------------------------------
Accounts == {"owner.near", "user.near"}

NoteIds == 1..MaxNotes

\* the commitment and the nullifier hash of the k-th note, as decimal strings
NoteCommitment(k) == <<Digit(k)>>

NoteNullifier(k) == <<Digit(k + 4)>>

CommitStrs == {NoteCommitment(k) : k \in NoteIds}

\* the nullifiers of the notes, and the first one written with a leading zero
NullStrs == {NoteNullifier(k) : k \in NoteIds} \cup {<<"0">> \o NoteNullifier(1)}

AmountStrs == {<<Digit(a)>> : a \in 1..MaxAmount}

BadStr == <<"x">>

NearAssetId == <<"0">>

UsdcAssetId == <<"9">>

SecondStrs == CommitStrs \cup {NearAssetId, UsdcAssetId}

\* public inputs handed to NearPrivacyPool: [nullifier, commitment, 1] for the
\* nullifier of every note, some with the nullifier spelled otherwise or not a
\* number, and two vectors that are too short
NearInputs ==
    {<<NoteNullifier(k), c, <<"1">> >> : k \in NoteIds, c \in CommitStrs}
    \cup {<<n, NoteCommitment(1), <<"1">> >> : n \in NullStrs \cup {BadStr}}
    \cup {<<>>, <<NoteNullifier(1)>>}

\* public inputs handed to MultiAssetPool: [nullifier, asset id or commitment,
\* amount], and two vectors that are too short
MultiInputs ==
    {<<NoteNullifier(k), s, a>> : k \in NoteIds, s \in SecondStrs, a \in AmountStrs}
    \cup {<<n, s, <<"1">> >> : n \in NullStrs \cup {BadStr},
                                s \in {NearAssetId, NoteCommitment(1)}}
    \cup {<<>>, <<NoteNullifier(1)>>}

\* VotingContract: the Merkle root of the eligible voters and another root
VoterRoot == <<"7">>

OtherRoot == <<"8">>

\* the nullifier of a voter, also written with a leading zero
VoterNullifiers == {<<"5">>, <<"0", "5">>}

PollIds == 1..MaxPolls

\* poll ids as public inputs write them: plain, with a leading zero, with a sign
PollIdStrs == {<<Digit(p)>> : p \in PollIds} \cup {<<"0", "1">>, <<"+", "1">>}

\* public inputs handed to VotingContract: [nullifier, voterTreeRoot, pollId],
\* one whose nullifier is not a number, and two vectors that are too short
VoteInputs ==
    {<<n, r, p>> : n \in VoterNullifiers, r \in {VoterRoot, OtherRoot}, p \in PollIdStrs}
    \cup {<<BadStr, VoterRoot, <<"1">> >>, <<>>, <<NoteNullifier(1), VoterRoot>>}

\* 2^256 in decimal (78 digits): the least value that does not fit a U256
TooBig ==
    <<"1", "1", "5", "7", "9", "2", "0", "8", "9", "2", "3", "7", "3",
      "1", "6", "1", "9", "5", "4", "2", "3", "5", "7", "0", "9", "8",
      "5", "0", "0", "8", "6", "8", "7", "9", "0", "7", "8", "5", "3",
      "2", "6", "9", "9", "8", "4", "6", "6", "5", "6", "4", "0", "5",
      "6", "4", "0", "3", "9", "4", "5", "7", "5", "8", "4", "0", "0",
      "7", "9", "1", "3", "1", "2", "9", "6", "3", "9", "9", "3", "6">>

\* the empty string, which from_dec_str takes for 0 (its loop runs no round)
EmptyStr == <<>>

DecStrings ==
    NullStrs \cup SecondStrs \cup AmountStrs \cup {BadStr}
    \cup VoterNullifiers \cup {VoterRoot, OtherRoot} \cup PollIdStrs

DecTable == [s \in DecStrings |-> from_dec_str_loop(s, 1, U256_zero)]

from_dec_str(s) == DecTable[s]

KeyTable == [s \in DecStrings |-> to_be_bytes(DecTable[s].val)]

\* the 32-byte key a decimal string is stored under
KeyOf(str) == KeyTable[str]

U128Table == [s \in DecStrings |-> u128_try_from(DecTable[s].val)]

\* u128::try_from(U256::from_dec_str(str)) of a string that parses
to_u128(str) == U128Table[str]

\* verification keys as JSON: the circuit's key, a key of another circuit
\* (each for three public inputs), and a document that does not parse
VkJsons ==
    {[id |-> "circuit", n |-> 3, ok |-> TRUE],
     [id |-> "other", n |-> 3, ok |-> TRUE],
     [id |-> "malformed", n |-> 0, ok |-> FALSE]}

\* Verifier::from_json
Verifier_from_json(j) == [ok |-> j.ok, verifier |-> [id |-> j.id, n |-> j.n]]

\* a proof is known by the key it was made for
ProofJsons == {[vk |-> "circuit"], [vk |-> "other"]}

\* Verifier::verify_json: the inputs parse, their count is the key's, and the
\* host's pairing check accepts the proof for this key and these inputs
verify_json(v, proof, public_inputs) ==
    /\ \A i \in 1..Len(public_inputs) : from_dec_str(public_inputs[i]).ok
    /\ Len(public_inputs) = v.n
    /\ proof.vk = v.id

\* ------------------------------------------------------------------------
\* State
\* ------------------------------------------------------------------------
\* one verification: the key document handed to Verifier::from_json (if any),
\* the key, the pending call, its result, the host calls
VARIABLES key_json, vk, call, ret, calls, vk_x

\* one call of a library function that touches no contract state (a codec of
\* types.rs, the field arithmetic and the hashes of poseidon.rs): the function
\* with its arguments, and what it has returned
VARIABLES job, returned

\* the deployed template and its contract state
VARIABLES deployed, verifier, nullifiers, commitments, commitments_list, owner,
          total_balance, proof_count

\* MultiAssetPool: balances per asset id, the token whitelist, the asset id
\* configured per token, and the ft_transfer promises awaiting their callback
VARIABLES asset_balances, registered_tokens, token_asset_ids, pending

\* history kept for the properties: the promise result the last step saw, if
\* it was a callback, and whether the balance had changed since the withdrawal;
\* the number of successful spends per nullifier, the amount behind each
\* commitment, the keys in force when deposits were made, and per asset the
\* balance without the withdrawals whose ft_transfer has not succeeded
VARIABLES resolved, uses, note_amount, deposit_vks, settled

\* VotingContract: the polls by id, the id the next poll gets, the admin, and
\* the time of the block the next call runs in
VARIABLES polls, next_poll_id, admin, block_timestamp

lvars == <<job, returned>>

vvars == <<key_json, vk, call, ret, calls, vk_x, lvars>>

cvars == <<deployed, verifier, nullifiers, commitments, commitments_list, owner,
           total_balance, proof_count>>

mvars == <<asset_balances, registered_tokens, token_asset_ids, pending>>

hvars == <<resolved, uses, note_amount, deposit_vks, settled>>

pvars == <<polls, next_poll_id, admin, block_timestamp>>

vars == <<vvars, cvars, mvars, hvars, pvars>>

NoCallback == [promise |-> "none", interleaved |-> FALSE]

\* the state a constructor leaves
Constructed ==
    /\ verifier = [id |-> "circuit", n |-> 3]
    /\ nullifiers = {}
    /\ commitments = {}
    /\ commitments_list = <<>>
    /\ owner = "owner.near"
    /\ total_balance = 0
    /\ proof_count = 0
    /\ asset_balances = << >>
    /\ registered_tokens = {}
    /\ token_asset_ids = << >>
    /\ pending = <<>>
    /\ resolved = NoCallback
    /\ uses = << >>
    /\ note_amount = << >>
    /\ deposit_vks = {}
    /\ settled = << >>
    /\ polls = << >>
    /\ next_poll_id = 1
    /\ admin = "owner.near"
    /\ block_timestamp = 0

\* no template deployed
TemplatesIdle == deployed = "none" /\ Constructed

\* no library call under way
LibIdle == job = <<>> /\ returned = <<>>

\* no verification under way
VerifierIdle ==
    /\ LibIdle
    /\ key_json = <<>>
    /\ vk = <<>>
    /\ call = <<>>
    /\ ret = "none"
    /\ calls = <<>>
    /\ vk_x = <<>>

\* ------------------------------------------------------------------------
\* One verification
\* ------------------------------------------------------------------------
\* a verifier built by Verifier::new and one pending call of verify
InitV ==
    /\ key_json = <<>>
    /\ vk \in VKs
    /\ call \in [inputs : SeqsUpTo(Scalars, MaxInputs), proof : Proofs, host : Hosts]
    /\ ret = "none"
    /\ calls = <<>>
    /\ vk_x = None
    /\ LibIdle
    /\ TemplatesIdle

Verify ==
    /\ ret = "none"
    /\ LET v == verify(vk, call.inputs, call.proof, call.host)
       IN  /\ ret' = v.ret
           /\ calls' = v.calls
           /\ vk_x' = v.x
    /\ UNCHANGED <<key_json, vk, call, lvars, cvars, mvars, hvars, pvars>>

NextV == Verify

SpecV == InitV /\ [][NextV]_vars

\* ------------------------------------------------------------------------
\* Properties of the verifier
\* ------------------------------------------------------------------------
Returned == ret # "none"

CallsTo(f) == SelectSeq(calls, LAMBDA c : c.fn = f)

\* the k-th 32-byte word of a buffer
Word(buf, k) == SubSeq(buf, WordBytes * (k - 1) + 1, WordBytes * k)

\* v written most significant byte first
BigEndian(v) == [i \in 1..WordBytes |-> v[WordBytes + 1 - i]]

\* v written least significant byte first
LittleEndian(v) == [i \in 1..WordBytes |-> v[i]]

\* C1: verify returns false and calls no host primitive whenever the number
\* of inputs differs from len(IC) - 1, a key with an empty IC included.
C1_CountMismatchReturnsFalse ==
    (Returned /\ Len(call.inputs) # Len(vk.ic) - 1)
        => (ret = "false" /\ calls = <<>>)

\* fewer inputs than the key expects, the first of them non-zero
C1_Witness ==
    /\ ret = "false"
    /\ Len(call.inputs) = 1
    /\ Len(vk.ic) = 3
    /\ ~U256_is_zero(call.inputs[1])

\* the negation of A the pairing batch has to carry: A itself at infinity,
\* otherwise the point with the same x whose y adds up with A.y to q
IsNegationOf(n, a) ==
    IF G1_is_zero(a) THEN n = a
    ELSE /\ n.x = a.x
         /\ overflowing_sub(field_modulus, n.y) = [val |-> a.y, overflow |-> FALSE]

\* the 24 words of the pairing batch after -A, in the order of the four pairs
PairingTail ==
    <<call.proof.b.x[2], call.proof.b.x[1], call.proof.b.y[2], call.proof.b.y[1],
      vk.alpha.x, vk.alpha.y, vk.beta.x[2], vk.beta.x[1], vk.beta.y[2], vk.beta.y[1],
      vk_x.point.x, vk_x.point.y, vk.gamma.x[2], vk.gamma.x[1], vk.gamma.y[2], vk.gamma.y[1],
      call.proof.c.x, call.proof.c.y, vk.delta.x[2], vk.delta.x[1], vk.delta.y[2], vk.delta.y[1]>>

PairingBatchOk(arg) ==
    /\ Len(arg) = 768
    /\ IsNegationOf([x |-> from_be_bytes(Word(arg, 1)), y |-> from_be_bytes(Word(arg, 2))],
                    call.proof.a)
    /\ \A k \in 1..22 : Word(arg, k + 2) = BigEndian(PairingTail[k])

\* C2: with a matching input count and vk_x computed, verify makes exactly one
\* pairing_check call, on the 768 bytes (-A,B),(alpha,beta),(vk_x,gamma),(C,delta),
\* and returns the boolean the host gave for it.
C2_OnePairingCall ==
    (Returned /\ Len(call.inputs) = num_inputs(vk) /\ vk_x.some)
        => /\ Len(CallsTo("pairing_check")) = 1
           /\ calls[Len(calls)].fn = "pairing_check"
           /\ PairingBatchOk(calls[Len(calls)].arg)
           /\ ret = (IF call.host.pair THEN "true" ELSE "false")

\* what C2 says, in the calls where the negation of A does not abort
C2_OnePairingCallUnlessPanic == (ret # "panic") => C2_OnePairingCall

\* the (1-based) positions of the non-zero inputs
NonZeroIdx == {i \in 1..Len(call.inputs) : ~U256_is_zero(call.inputs[i])}

\* how many non-zero inputs precede position i
Rank(i) == Cardinality({j \in NonZeroIdx : j < i})

MsmBufferOk(buf) ==
    /\ Len(buf) = 96 * Cardinality(NonZeroIdx)
    /\ \A i \in NonZeroIdx :
         /\ Word(buf, 3 * Rank(i) + 1) = LittleEndian(call.inputs[i])
         /\ Word(buf, 3 * Rank(i) + 2) = BigEndian(vk.ic[i + 1].x)
         /\ Word(buf, 3 * Rank(i) + 3) = BigEndian(vk.ic[i + 1].y)

\* C3: for inputs of matching length the multiexp buffer holds one 96-byte
\* entry (scalar little-endian, then IC[i+1] big-endian) per non-zero input in
\* increasing i; with a non-zero input g1_multiexp is called once on it, then
\* g1_sum once on IC[0] || msm, and the sum is vk_x; with none, neither
\* primitive is called and vk_x = IC[0].
C3_VkX ==
    (Returned /\ Len(call.inputs) = Len(vk.ic) - 1)
        => IF NonZeroIdx = {}
           THEN /\ CallsTo("g1_multiexp") = <<>>
                /\ CallsTo("g1_sum") = <<>>
                /\ vk_x.some /\ vk_x.point = vk.ic[1]
           ELSE /\ Len(CallsTo("g1_multiexp")) = 1
                /\ calls[1].fn = "g1_multiexp"
                /\ MsmBufferOk(calls[1].arg)
                /\ Len(call.host.msm) = G1Bytes
                     => /\ Len(CallsTo("g1_sum")) = 1
                        /\ calls[2].fn = "g1_sum"
                        /\ calls[2].arg = BigEndian(vk.ic[1].x) \o BigEndian(vk.ic[1].y)
                                            \o call.host.msm
                        /\ Len(call.host.sum) = G1Bytes
                             => /\ vk_x.some
                                /\ BigEndian(vk_x.point.x) = Word(call.host.sum, 1)
                                /\ BigEndian(vk_x.point.y) = Word(call.host.sum, 2)

\* two inputs, the first zero and the second not, and both primitives answered
C3_Witness ==
    /\ Returned
    /\ Len(call.inputs) = 2 /\ Len(vk.ic) = 3
    /\ U256_is_zero(call.inputs[1]) /\ ~U256_is_zero(call.inputs[2])
    /\ Len(calls) >= 2 /\ vk_x.some

\* C4: verify never aborts: it returns true or false for every key, every
\* input vector and every proof, a proof with A.y above q included.
C4_NoPanic == ret # "panic"

\* ------------------------------------------------------------------------
\* Helpers shared by the templates
\* ------------------------------------------------------------------------
\* a map with key k set to v
Put(f, k, v) == [x \in DOMAIN f \cup {k} |-> IF x = k THEN v ELSE f[x]]

Get(f, k, default) == IF k \in DOMAIN f THEN f[k] ELSE default

\* proofs that exist: under the circuit's key only for the nullifier of a note
\* whose commitment is in the tree; under another key (a circuit of its
\* author's choosing) there is no such limit
Provable(proof, public_inputs) ==
    proof.vk = "circuit" =>
        /\ Len(public_inputs) >= 1
        /\ from_dec_str(public_inputs[1]).ok
        /\ \E k \in NoteIds :
             /\ KeyOf(public_inputs[1]) = KeyOf(NoteNullifier(k))
             /\ KeyOf(NoteCommitment(k)) \in commitments

\* notes are numbered in the order their commitments enter the tree: the
\* commitment of note k is new only once those of the notes before it are there
InOrder(commitment) ==
    \A k \in NoteIds :
        KeyOf(commitment) = KeyOf(NoteCommitment(k)) =>
            \A j \in 1..(k - 1) : KeyOf(NoteCommitment(j)) \in commitments

\* one more successful spend of nullifier key n
Spend(n) == uses' = Put(uses, n, Get(uses, n, 0) + 1)

\* the amount behind the note that nullifier key n spends
SpentAmount(n) ==
    LET ks == {k \in NoteIds : KeyOf(NoteNullifier(k)) = n
                                /\ KeyOf(NoteCommitment(k)) \in DOMAIN note_amount}
    IN  IF ks = {} THEN 0 ELSE note_amount[KeyOf(NoteCommitment(CHOOSE k \in ks : TRUE))]

\* the value of a decimal string that fits in three bytes, 0 if it does not parse
ValueOf(str) == to_u128(str).val

\* is_nullifier_used, the view every template has
is_nullifier_used(nullifier) == KeyOf(nullifier) \in nullifiers

\* ------------------------------------------------------------------------
\* NearPrivacyPool (templates/privacy-near-only).  Each method has the message
\* it panics with ("" when it goes through); a panic leaves the state as it
\* was, so only the calls that go through are steps.
\* ------------------------------------------------------------------------
NearPrivacyPool_deposit_err(commitment, attached) ==
    IF attached = 0 THEN "Must attach NEAR to deposit"
    ELSE IF ~from_dec_str(commitment).ok THEN "Commitment must be a decimal string"
    ELSE IF KeyOf(commitment) \in commitments
         THEN "Commitment already exists - must be unique"
    ELSE ""

NearPrivacyPool_deposit(commitment, attached) ==
    /\ deployed = "NearPrivacyPool"
    /\ NearPrivacyPool_deposit_err(commitment, attached) = ""
    /\ InOrder(commitment)
    /\ commitments' = commitments \cup {KeyOf(commitment)}
    /\ commitments_list' = Append(commitments_list, KeyOf(commitment))
    /\ total_balance' = total_balance + attached
    /\ note_amount' = Put(note_amount, KeyOf(commitment), attached)
    /\ deposit_vks' = deposit_vks \cup {verifier.id}
    /\ UNCHANGED <<deployed, verifier, nullifiers, owner, proof_count, uses, settled, resolved>>
    /\ UNCHANGED <<vvars, pvars, mvars>>

NearPrivacyPool_withdraw_err(proof, public_inputs, amount) ==
    IF Len(public_inputs) < 1 THEN "Public inputs must include nullifier hash"
    ELSE IF ~from_dec_str(amount).ok THEN "Amount must be a decimal string"
    ELSE IF ~to_u128(amount).ok THEN "Amount too large for u128"
    ELSE IF ValueOf(amount) > total_balance THEN "Insufficient pool balance"
    ELSE IF ~from_dec_str(public_inputs[1]).ok THEN "Nullifier must be a decimal string"
    ELSE IF KeyOf(public_inputs[1]) \in nullifiers
         THEN "Nullifier already used - note already spent"
    ELSE IF ~verify_json(verifier, proof, public_inputs)
         THEN "Proof verification failed - invalid proof or wrong circuit"
    ELSE ""

NearPrivacyPool_withdraw(proof, public_inputs, amount) ==
    /\ deployed = "NearPrivacyPool"
    /\ NearPrivacyPool_withdraw_err(proof, public_inputs, amount) = ""
    /\ Provable(proof, public_inputs)
    /\ nullifiers' = nullifiers \cup {KeyOf(public_inputs[1])}
    /\ proof_count' = proof_count + 1
    /\ total_balance' = total_balance - ValueOf(amount)
    /\ Spend(KeyOf(public_inputs[1]))
    /\ UNCHANGED <<deployed, verifier, commitments, commitments_list, owner,
                   note_amount, deposit_vks, settled, resolved>>
    /\ UNCHANGED <<vvars, pvars, mvars>>

\* transfer inserts the nullifier before it checks the new commitment; a
\* duplicate commitment panics and the insertion is rolled back with the call
NearPrivacyPool_transfer_err(proof, public_inputs) ==
    IF Len(public_inputs) < 2 THEN "Must have at least nullifier and commitment"
    ELSE IF ~from_dec_str(public_inputs[1]).ok THEN "Nullifier must be a decimal string"
    ELSE IF KeyOf(public_inputs[1]) \in nullifiers
         THEN "Nullifier already used - input note already spent"
    ELSE IF ~verify_json(verifier, proof, public_inputs) THEN "Proof verification failed"
    ELSE IF ~from_dec_str(public_inputs[2]).ok THEN "Commitment must be a decimal string"
    ELSE IF KeyOf(public_inputs[2]) \in commitments
         THEN "Commitment already exists - cannot reuse commitments"
    ELSE ""

NearPrivacyPool_transfer(proof, public_inputs) ==
    /\ deployed = "NearPrivacyPool"
    /\ NearPrivacyPool_transfer_err(proof, public_inputs) = ""
    /\ Provable(proof, public_inputs)
    /\ InOrder(public_inputs[2])
    /\ nullifiers' = nullifiers \cup {KeyOf(public_inputs[1])}
    /\ proof_count' = proof_count + 1
    /\ commitments' = commitments \cup {KeyOf(public_inputs[2])}
    /\ commitments_list' = Append(commitments_list, KeyOf(public_inputs[2]))
    /\ Spend(KeyOf(public_inputs[1]))
    /\ note_amount' = Put(note_amount, KeyOf(public_inputs[2]),
                          SpentAmount(KeyOf(public_inputs[1])))
    /\ UNCHANGED <<deployed, verifier, owner, total_balance, deposit_vks, settled, resolved>>
    /\ UNCHANGED <<vvars, pvars, mvars>>

\* update_verification_key without its check of the caller (lines 425-428 removed)
NearPrivacyPool_update_verification_key_err_no_owner_check(caller, vk_json) ==
    IF ~Verifier_from_json(vk_json).ok THEN "Invalid verification key" ELSE ""

NearPrivacyPool_update_verification_key_err(caller, vk_json) ==
    IF caller # owner THEN "Only owner can update verification key"
    ELSE IF ~Verifier_from_json(vk_json).ok THEN "Invalid verification key"
    ELSE ""

NearPrivacyPool_update_verification_key(caller, vk_json) ==
    /\ deployed = "NearPrivacyPool"
    /\ NearPrivacyPool_update_verification_key_err(caller, vk_json) = ""
    /\ verifier' = Verifier_from_json(vk_json).verifier
    /\ UNCHANGED <<deployed, nullifiers, commitments, commitments_list, owner,
                   total_balance, proof_count, uses, note_amount, deposit_vks, settled, resolved>>
    /\ UNCHANGED <<vvars, pvars, mvars>>

NearPrivacyPool_transfer_ownership(caller, new_owner) ==
    /\ deployed = "NearPrivacyPool"
    /\ caller = owner
    /\ owner' = new_owner
    /\ UNCHANGED <<deployed, verifier, nullifiers, commitments, commitments_list,
                   total_balance, proof_count, uses, note_amount, deposit_vks, settled, resolved>>
    /\ UNCHANGED <<vvars, pvars, mvars>>

\* ------------------------------------------------------------------------
\* MultiAssetPool (templates/privacy-multi-asset)
\* ------------------------------------------------------------------------
\* the pending withdrawals of an asset, summed
RECURSIVE PendingSum(_, _)
PendingSum(p, asset_id) ==
    IF p = <<>> THEN 0
    ELSE (IF Head(p).asset_id = asset_id THEN Head(p).amount ELSE 0)
         + PendingSum(Tail(p), asset_id)

\* p without its i-th element
RemoveAt(p, i) == SubSeq(p, 1, i - 1) \o SubSeq(p, i + 1, Len(p))

MultiAssetPool_internal_deposit_err(commitment) ==
    IF ~from_dec_str(commitment).ok THEN "Invalid commitment"
    ELSE IF KeyOf(commitment) \in commitments
         THEN "Commitment already exists - cannot reuse commitments"
    ELSE ""

MultiAssetPool_internal_deposit(commitment, asset_id, amount) ==
    /\ commitments' = commitments \cup {KeyOf(commitment)}
    /\ commitments_list' = Append(commitments_list, KeyOf(commitment))
    /\ asset_balances' = Put(asset_balances, asset_id, Get(asset_balances, asset_id, 0) + amount)
    /\ settled' = Put(settled, asset_id, Get(settled, asset_id, 0) + amount)

MultiAssetPool_deposit_near_err(commitment, attached) ==
    IF attached = 0 THEN "Must attach NEAR"
    ELSE MultiAssetPool_internal_deposit_err(commitment)

MultiAssetPool_deposit_near(commitment, attached) ==
    /\ deployed = "MultiAssetPool"
    /\ MultiAssetPool_deposit_near_err(commitment, attached) = ""
    /\ InOrder(commitment)
    /\ MultiAssetPool_internal_deposit(commitment, NearAssetId, attached)
    /\ resolved' = NoCallback
    /\ UNCHANGED <<deployed, verifier, nullifiers, owner, total_balance, proof_count>>
    /\ UNCHANGED <<registered_tokens, token_asset_ids, pending>>
    /\ UNCHANGED <<uses, note_amount, deposit_vks, vvars, pvars>>

\* public_inputs[1] is taken for a new commitment whenever it is there and
\* not the empty string
HasSecond(public_inputs) == Len(public_inputs) > 1 /\ public_inputs[2] # <<>>

\* internal_verify_and_register without its nullifier check
MultiAssetPool_internal_verify_and_register_err_no_nullifier_check(proof, public_inputs) ==
    IF ~from_dec_str(public_inputs[1]).ok THEN "Invalid nullifier"
    ELSE IF HasSecond(public_inputs) /\ ~from_dec_str(public_inputs[2]).ok
         THEN "Invalid commitment"
    ELSE IF HasSecond(public_inputs) /\ KeyOf(public_inputs[2]) \in commitments
         THEN "Commitment already exists - cannot reuse commitments"
    ELSE IF ~verify_json(verifier, proof, public_inputs) THEN "Proof verification failed"
    ELSE ""

MultiAssetPool_internal_verify_and_register_err(proof, public_inputs) ==
    IF ~from_dec_str(public_inputs[1]).ok THEN "Invalid nullifier"
    ELSE IF KeyOf(public_inputs[1]) \in nullifiers THEN "Nullifier already used"
    ELSE IF HasSecond(public_inputs) /\ ~from_dec_str(public_inputs[2]).ok
         THEN "Invalid commitment"
    ELSE IF HasSecond(public_inputs) /\ KeyOf(public_inputs[2]) \in commitments
         THEN "Commitment already exists - cannot reuse commitments"
    ELSE IF ~verify_json(verifier, proof, public_inputs) THEN "Proof verification failed"
    ELSE ""

MultiAssetPool_internal_verify_and_register(proof, public_inputs) ==
    /\ nullifiers' = nullifiers \cup {KeyOf(public_inputs[1])}
    /\ proof_count' = proof_count + 1
    /\ Spend(KeyOf(public_inputs[1]))
    /\ IF HasSecond(public_inputs)
       THEN /\ commitments' = commitments \cup {KeyOf(public_inputs[2])}
            /\ commitments_list' = Append(commitments_list, KeyOf(public_inputs[2]))
       ELSE UNCHANGED <<commitments, commitments_list>>

MultiAssetPool_withdraw_near_err(proof, public_inputs, amount) ==
    IF Len(public_inputs) < 2 THEN "Must include nullifier and assetId"
    ELSE IF public_inputs[2] # NearAssetId THEN "AssetId must be 0 for NEAR withdrawal"
    ELSE IF ~from_dec_str(amount).ok THEN "Invalid amount"
    ELSE IF ~to_u128(amount).ok THEN "Amount too large"
    ELSE IF MultiAssetPool_internal_verify_and_register_err(proof, public_inputs) # ""
         THEN MultiAssetPool_internal_verify_and_register_err(proof, public_inputs)
    ELSE IF ValueOf(amount) > Get(asset_balances, NearAssetId, 0)
         THEN "Insufficient NEAR balance in pool"
    ELSE ""

MultiAssetPool_withdraw_near(proof, public_inputs, amount) ==
    /\ deployed = "MultiAssetPool"
    /\ MultiAssetPool_withdraw_near_err(proof, public_inputs, amount) = ""
    /\ Provable(proof, public_inputs)
    /\ MultiAssetPool_internal_verify_and_register(proof, public_inputs)
    /\ asset_balances' = Put(asset_balances, NearAssetId,
                             Get(asset_balances, NearAssetId, 0) - ValueOf(amount))
    /\ settled' = Put(settled, NearAssetId, Get(settled, NearAssetId, 0) - ValueOf(amount))
    /\ resolved' = NoCallback
    /\ UNCHANGED <<deployed, verifier, owner, total_balance>>
    /\ UNCHANGED <<registered_tokens, token_asset_ids, pending>>
    /\ UNCHANGED <<note_amount, deposit_vks, vvars, pvars>>

\* token contracts, and the messages ft_transfer_call hands on: a commitment
\* with an asset id, or text that is not such a document
TokenContracts == {"usdc.near"}

DepositMsgs ==
    {[ok |-> TRUE, commitment |-> c, asset_id |-> UsdcAssetId] : c \in CommitStrs}
    \cup {[ok |-> TRUE, commitment |-> NoteCommitment(1), asset_id |-> NearAssetId],
          [ok |-> FALSE, commitment |-> <<>>, asset_id |-> <<>>]}

\* ft_on_transfer without its check of the whitelist (lines 278-286 removed)
MultiAssetPool_ft_on_transfer_err_no_whitelist(token_contract, amount, msg) ==
    IF ~msg.ok THEN "Invalid deposit message format"
    ELSE IF token_contract \notin DOMAIN token_asset_ids THEN "Token asset ID not configured"
    ELSE IF msg.asset_id # token_asset_ids[token_contract] THEN "Asset ID mismatch"
    ELSE MultiAssetPool_internal_deposit_err(msg.commitment)

MultiAssetPool_ft_on_transfer_err(token_contract, amount, msg) ==
    IF token_contract \notin registered_tokens THEN "Token contract is not registered"
    ELSE IF ~msg.ok THEN "Invalid deposit message format"
    ELSE IF token_contract \notin DOMAIN token_asset_ids THEN "Token asset ID not configured"
    ELSE IF msg.asset_id # token_asset_ids[token_contract] THEN "Asset ID mismatch"
    ELSE MultiAssetPool_internal_deposit_err(msg.commitment)

MultiAssetPool_ft_on_transfer(token_contract, amount, msg) ==
    /\ deployed = "MultiAssetPool"
    /\ MultiAssetPool_ft_on_transfer_err(token_contract, amount, msg) = ""
    /\ InOrder(msg.commitment)
    /\ MultiAssetPool_internal_deposit(msg.commitment, msg.asset_id, amount)
    /\ resolved' = NoCallback
    /\ UNCHANGED <<deployed, verifier, nullifiers, owner, total_balance, proof_count>>
    /\ UNCHANGED <<registered_tokens, token_asset_ids, pending>>
    /\ UNCHANGED <<uses, note_amount, deposit_vks, vvars, pvars>>

\* withdraw_ft without its comparison of the asset id (lines 370-376 removed)
MultiAssetPool_withdraw_ft_err_no_asset_check(proof, public_inputs, amount, token_contract) ==
    IF Len(public_inputs) < 2 THEN "Must include nullifier and assetId"
    ELSE IF token_contract \notin DOMAIN token_asset_ids THEN "Token asset ID not configured"
    ELSE IF ~from_dec_str(amount).ok THEN "Invalid amount"
    ELSE IF ~to_u128(amount).ok THEN "Amount too large"
    ELSE IF MultiAssetPool_internal_verify_and_register_err(proof, public_inputs) # ""
         THEN MultiAssetPool_internal_verify_and_register_err(proof, public_inputs)
    ELSE IF ValueOf(amount) > Get(asset_balances, token_asset_ids[token_contract], 0)
         THEN "Insufficient balance"
    ELSE ""

MultiAssetPool_withdraw_ft_err(proof, public_inputs, amount, token_contract) ==
    IF Len(public_inputs) < 2 THEN "Must include nullifier and assetId"
    ELSE IF token_contract \notin DOMAIN token_asset_ids THEN "Token asset ID not configured"
    ELSE IF public_inputs[2] # token_asset_ids[token_contract] THEN "AssetId mismatch"
    ELSE IF ~from_dec_str(amount).ok THEN "Invalid amount"
    ELSE IF ~to_u128(amount).ok THEN "Amount too large"
    ELSE IF MultiAssetPool_internal_verify_and_register_err(proof, public_inputs) # ""
         THEN MultiAssetPool_internal_verify_and_register_err(proof, public_inputs)
    ELSE IF ValueOf(amount) > Get(asset_balances, token_asset_ids[token_contract], 0)
         THEN "Insufficient balance"
    ELSE ""

\* withdraw_ft deducts the amount and leaves a promise: ft_transfer on the
\* token contract, then the callback ft_resolve_transfer(asset_id, amount)
MultiAssetPool_withdraw_ft(proof, public_inputs, amount, token_contract) ==
    /\ deployed = "MultiAssetPool"
    /\ MultiAssetPool_withdraw_ft_err(proof, public_inputs, amount, token_contract) = ""
    /\ Provable(proof, public_inputs)
    /\ MultiAssetPool_internal_verify_and_register(proof, public_inputs)
    /\ LET expected_asset_id == token_asset_ids[token_contract]
           ft_balance == Get(asset_balances, expected_asset_id, 0)
       IN  /\ asset_balances' = Put(asset_balances, expected_asset_id,
                                    ft_balance - ValueOf(amount))
           /\ pending' = Append(pending, [asset_id |-> expected_asset_id,
                                          amount |-> ValueOf(amount),
                                          at_call |-> ft_balance - ValueOf(amount)])
    /\ resolved' = NoCallback
    /\ UNCHANGED <<deployed, verifier, owner, total_balance>>
    /\ UNCHANGED <<registered_tokens, token_asset_ids>>
    /\ UNCHANGED <<note_amount, deposit_vks, settled, vvars, pvars>>

PromiseResults == {"Successful", "Failed"}

\* ft_resolve_transfer that restores nothing
MultiAssetPool_ft_resolve_transfer_no_restore(i, promise_result) ==
    /\ deployed = "MultiAssetPool"
    /\ i \in 1..Len(pending)
    /\ pending' = RemoveAt(pending, i)
    /\ asset_balances' = asset_balances
    /\ IF promise_result = "Successful"
       THEN settled' = Put(settled, pending[i].asset_id,
                           Get(settled, pending[i].asset_id, 0) - pending[i].amount)
       ELSE settled' = settled
    /\ resolved' = [promise |-> promise_result,
                    interleaved |-> Get(asset_balances, pending[i].asset_id, 0)
                                    # pending[i].at_call]
    /\ UNCHANGED <<cvars, registered_tokens, token_asset_ids>>
    /\ UNCHANGED <<uses, note_amount, deposit_vks, vvars, pvars>>

\* the callback of the i-th pending withdrawal, once its ft_transfer is done
MultiAssetPool_ft_resolve_transfer(i, promise_result) ==
    /\ deployed = "MultiAssetPool"
    /\ i \in 1..Len(pending)
    /\ pending' = RemoveAt(pending, i)
    /\ IF promise_result = "Successful"
       THEN /\ asset_balances' = asset_balances
            /\ settled' = Put(settled, pending[i].asset_id,
                              Get(settled, pending[i].asset_id, 0) - pending[i].amount)
       ELSE /\ asset_balances' = Put(asset_balances, pending[i].asset_id,
                                     Get(asset_balances, pending[i].asset_id, 0)
                                     + pending[i].amount)
            /\ settled' = settled
    /\ resolved' = [promise |-> promise_result,
                    interleaved |-> Get(asset_balances, pending[i].asset_id, 0)
                                    # pending[i].at_call]
    /\ UNCHANGED <<cvars, registered_tokens, token_asset_ids>>
    /\ UNCHANGED <<uses, note_amount, deposit_vks, vvars, pvars>>

MultiAssetPool_transfer_err(proof, public_inputs) ==
    IF Len(public_inputs) < 2 THEN "Must include nullifier and commitment"
    ELSE MultiAssetPool_internal_verify_and_register_err(proof, public_inputs)

MultiAssetPool_transfer(proof, public_inputs) ==
    /\ deployed = "MultiAssetPool"
    /\ MultiAssetPool_transfer_err(proof, public_inputs) = ""
    /\ Provable(proof, public_inputs)
    /\ InOrder(public_inputs[2])
    /\ MultiAssetPool_internal_verify_and_register(proof, public_inputs)
    /\ resolved' = NoCallback
    /\ UNCHANGED <<deployed, verifier, owner, total_balance>>
    /\ UNCHANGED <<mvars, note_amount, deposit_vks, settled, vvars, pvars>>

\* what the admin methods leave alone
MultiAssetPool_admin_frame ==
    /\ resolved' = NoCallback
    /\ UNCHANGED <<deployed, verifier, nullifiers, commitments, commitments_list,
                   total_balance, proof_count, asset_balances, pending>>
    /\ UNCHANGED <<uses, note_amount, deposit_vks, settled, vvars, pvars>>

MultiAssetPool_register_token(caller, token_contract) ==
    /\ deployed = "MultiAssetPool"
    /\ caller = owner
    /\ registered_tokens' = registered_tokens \cup {token_contract}
    /\ UNCHANGED <<owner, token_asset_ids>>
    /\ MultiAssetPool_admin_frame

MultiAssetPool_set_token_asset_id_err(caller, token_contract, asset_id) ==
    IF caller # owner THEN "Only owner can set asset IDs"
    ELSE IF ~from_dec_str(asset_id).ok THEN "asset_id must be a valid decimal number"
    ELSE ""

MultiAssetPool_set_token_asset_id(caller, token_contract, asset_id) ==
    /\ deployed = "MultiAssetPool"
    /\ MultiAssetPool_set_token_asset_id_err(caller, token_contract, asset_id) = ""
    /\ token_asset_ids' = Put(token_asset_ids, token_contract, asset_id)
    /\ UNCHANGED <<owner, registered_tokens>>
    /\ MultiAssetPool_admin_frame

MultiAssetPool_unregister_token(caller, token_contract) ==
    /\ deployed = "MultiAssetPool"
    /\ caller = owner
    /\ registered_tokens' = registered_tokens \ {token_contract}
    /\ UNCHANGED <<owner, token_asset_ids>>
    /\ MultiAssetPool_admin_frame

MultiAssetPool_transfer_ownership(caller, new_owner) ==
    /\ deployed = "MultiAssetPool"
    /\ caller = owner
    /\ owner' = new_owner
    /\ UNCHANGED <<registered_tokens, token_asset_ids>>
    /\ MultiAssetPool_admin_frame

\* ------------------------------------------------------------------------
\* PrivacyContract (templates/privacy)
\* ------------------------------------------------------------------------
PrivacyContract_verify_and_register_err(proof, public_inputs) ==
    IF Len(public_inputs) = 0 THEN "At least one public input (nullifier) required"
    ELSE IF ~from_dec_str(public_inputs[1]).ok THEN "Invalid nullifier format"
    ELSE IF KeyOf(public_inputs[1]) \in nullifiers
         THEN "Nullifier already used - possible double-spend attempt"
    ELSE IF ~verify_json(verifier, proof, public_inputs) THEN "Proof verification failed"
    ELSE IF Len(public_inputs) > 1 /\ ~from_dec_str(public_inputs[2]).ok
         THEN "Invalid commitment format"
    ELSE ""

PrivacyContract_verify_and_register(proof, public_inputs) ==
    /\ deployed = "PrivacyContract"
    /\ PrivacyContract_verify_and_register_err(proof, public_inputs) = ""
    /\ Provable(proof, public_inputs)
    /\ Len(public_inputs) > 1 => InOrder(public_inputs[2])
    /\ nullifiers' = nullifiers \cup {KeyOf(public_inputs[1])}
    /\ proof_count' = proof_count + 1
    /\ Spend(KeyOf(public_inputs[1]))
    /\ IF Len(public_inputs) > 1
       THEN commitments' = commitments \cup {KeyOf(public_inputs[2])}
       ELSE commitments' = commitments
    /\ UNCHANGED <<deployed, verifier, commitments_list, owner, total_balance>>
    /\ UNCHANGED <<mvars, resolved, note_amount, deposit_vks, settled, vvars, pvars>>

PrivacyContract_add_commitment_err(caller, commitment) ==
    IF caller # owner THEN "Only owner can add commitments directly"
    ELSE IF ~from_dec_str(commitment).ok THEN "Invalid commitment format"
    ELSE ""

PrivacyContract_add_commitment(caller, commitment) ==
    /\ deployed = "PrivacyContract"
    /\ PrivacyContract_add_commitment_err(caller, commitment) = ""
    /\ InOrder(commitment)
    /\ commitments' = commitments \cup {KeyOf(commitment)}
    /\ UNCHANGED <<deployed, verifier, nullifiers, commitments_list, owner, total_balance,
                   proof_count>>
    /\ UNCHANGED <<mvars, hvars, vvars, pvars>>

PrivacyContract_update_verification_key(caller, vk_json) ==
    /\ deployed = "PrivacyContract"
    /\ caller = owner
    /\ Verifier_from_json(vk_json).ok
    /\ verifier' = Verifier_from_json(vk_json).verifier
    /\ UNCHANGED <<deployed, nullifiers, commitments, commitments_list, owner, total_balance,
                   proof_count>>
    /\ UNCHANGED <<mvars, hvars, vvars, pvars>>

PrivacyContract_transfer_ownership(caller, new_owner) ==
    /\ deployed = "PrivacyContract"
    /\ caller = owner
    /\ owner' = new_owner
    /\ UNCHANGED <<deployed, verifier, nullifiers, commitments, commitments_list,
                   total_balance, proof_count>>
    /\ UNCHANGED <<mvars, hvars, vvars, pvars>>

\* ------------------------------------------------------------------------
\* ZkContract (lib/examples/contract.rs): nullifiers only, no tree of notes
\* ------------------------------------------------------------------------
ZkContract_verify_and_register_err(proof, public_inputs) ==
    IF Len(public_inputs) = 0 THEN "At least one public input (nullifier) required"
    ELSE IF ~from_dec_str(public_inputs[1]).ok THEN "Invalid nullifier format"
    ELSE IF KeyOf(public_inputs[1]) \in nullifiers THEN "Nullifier already used"
    ELSE IF ~verify_json(verifier, proof, public_inputs) THEN "Proof verification failed"
    ELSE ""

ZkContract_verify_and_register(proof, public_inputs) ==
    /\ deployed = "ZkContract"
    /\ ZkContract_verify_and_register_err(proof, public_inputs) = ""
    /\ nullifiers' = nullifiers \cup {KeyOf(public_inputs[1])}
    /\ Spend(KeyOf(public_inputs[1]))
    /\ UNCHANGED <<deployed, verifier, commitments, commitments_list, owner, total_balance,
                   proof_count>>
    /\ UNCHANGED <<mvars, resolved, note_amount, deposit_vks, settled, vvars, pvars>>

ZkContract_update_verification_key(caller, vk_json) ==
    /\ deployed = "ZkContract"
    /\ caller = owner
    /\ Verifier_from_json(vk_json).ok
    /\ verifier' = Verifier_from_json(vk_json).verifier
    /\ UNCHANGED <<deployed, nullifiers, commitments, commitments_list, owner, total_balance,
                   proof_count>>
    /\ UNCHANGED <<mvars, hvars, vvars, pvars>>

\* ------------------------------------------------------------------------
\* VotingContract (templates/voting).  Time is counted in hours.  A poll's
\* title, description and created_at, which no method reads after create_poll
\* has stored them, are left out.
\* ------------------------------------------------------------------------
RECURSIVE DigitsValue(_, _)
DigitsValue(s, acc) ==
    IF s = <<>> THEN acc ELSE DigitsValue(Tail(s), acc * 10 + DigitValue[Head(s)])

\* str::parse::<u64>: an optional '+', then one or more digits.  The strings
\* of the model are far below 2^64.
parse_u64(s) ==
    LET digits == IF s # <<>> /\ Head(s) = "+" THEN Tail(s) ELSE s
    IN  IF digits = <<>> \/ \E i \in 1..Len(digits) : digits[i] \notin DOMAIN DigitValue
        THEN [ok |-> FALSE, val |-> 0]
        ELSE [ok |-> TRUE, val |-> DigitsValue(digits, 0)]

\* the fewest hours whose nanoseconds, hours * 3600 * 1_000_000_000, exceed 64 bits
HugeHours == 5124096

Durations == {0, 1, HugeHours}

\* block_timestamp + duration_hours * 3600 * 1_000_000_000 (line 190).  When the
\* product overflows, a build with overflow checks panics and one without them
\* wraps; `wrapped` is the time the wrapped sum comes to.
ends_at_of(duration_hours, wrapped) ==
    IF duration_hours >= HugeHours THEN wrapped ELSE block_timestamp + duration_hours

VotingContract_create_poll(caller, voter_root, duration_hours, wrapped) ==
    /\ deployed = "VotingContract"
    /\ next_poll_id <= MaxPolls
    /\ wrapped \in 0..block_timestamp
    /\ duration_hours < HugeHours => wrapped = 0
    /\ polls' = Put(polls, next_poll_id,
                    [id |-> next_poll_id,
                     voter_root |-> voter_root,
                     yes_votes |-> 0,
                     no_votes |-> 0,
                     status |-> "Active",
                     creator |-> caller,
                     ends_at |-> ends_at_of(duration_hours, wrapped)])
    /\ next_poll_id' = next_poll_id + 1
    /\ UNCHANGED <<admin, block_timestamp, cvars, mvars, hvars, vvars>>

\* internal_vote without its check of the nullifier (lines 288-292 removed)
VotingContract_internal_vote_err_no_nullifier_check(poll_id, proof, public_inputs) ==
    IF Len(public_inputs) # 3
    THEN "Expected 3 public inputs: [nullifier, voterTreeRoot, pollId]"
    ELSE IF poll_id \notin DOMAIN polls THEN "Poll not found"
    ELSE IF polls[poll_id].status # "Active" THEN "Poll is not active"
    ELSE IF ~(block_timestamp < polls[poll_id].ends_at) THEN "Poll has ended"
    ELSE IF ~from_dec_str(public_inputs[1]).ok THEN "Invalid nullifier"
    ELSE IF public_inputs[2] # polls[poll_id].voter_root
         THEN "Voter root mismatch - you may not be eligible for this poll"
    ELSE IF ~parse_u64(public_inputs[3]).ok THEN "Invalid poll ID in proof"
    ELSE IF parse_u64(public_inputs[3]).val # poll_id THEN "Poll ID mismatch"
    ELSE IF ~verify_json(verifier, proof, public_inputs) THEN "Invalid vote proof"
    ELSE ""

\* internal_vote without its check of the end time (lines 263-267 removed)
VotingContract_internal_vote_err_no_time_check(poll_id, proof, public_inputs) ==
    IF Len(public_inputs) # 3
    THEN "Expected 3 public inputs: [nullifier, voterTreeRoot, pollId]"
    ELSE IF poll_id \notin DOMAIN polls THEN "Poll not found"
    ELSE IF polls[poll_id].status # "Active" THEN "Poll is not active"
    ELSE IF ~from_dec_str(public_inputs[1]).ok THEN "Invalid nullifier"
    ELSE IF public_inputs[2] # polls[poll_id].voter_root
         THEN "Voter root mismatch - you may not be eligible for this poll"
    ELSE IF ~parse_u64(public_inputs[3]).ok THEN "Invalid poll ID in proof"
    ELSE IF parse_u64(public_inputs[3]).val # poll_id THEN "Poll ID mismatch"
    ELSE IF <<poll_id, KeyOf(public_inputs[1])>> \in nullifiers
         THEN "You have already voted in this poll"
    ELSE IF ~verify_json(verifier, proof, public_inputs) THEN "Invalid vote proof"
    ELSE ""

VotingContract_internal_vote_err(poll_id, proof, public_inputs) ==
    IF Len(public_inputs) # 3
    THEN "Expected 3 public inputs: [nullifier, voterTreeRoot, pollId]"
    ELSE IF poll_id \notin DOMAIN polls THEN "Poll not found"
    ELSE IF polls[poll_id].status # "Active" THEN "Poll is not active"
    ELSE IF ~(block_timestamp < polls[poll_id].ends_at) THEN "Poll has ended"
    ELSE IF ~from_dec_str(public_inputs[1]).ok THEN "Invalid nullifier"
    ELSE IF public_inputs[2] # polls[poll_id].voter_root
         THEN "Voter root mismatch - you may not be eligible for this poll"
    ELSE IF ~parse_u64(public_inputs[3]).ok THEN "Invalid poll ID in proof"
    ELSE IF parse_u64(public_inputs[3]).val # poll_id THEN "Poll ID mismatch"
    ELSE IF <<poll_id, KeyOf(public_inputs[1])>> \in nullifiers
         THEN "You have already voted in this poll"
    ELSE IF ~verify_json(verifier, proof, public_inputs) THEN "Invalid vote proof"
    ELSE ""

VotingContract_internal_vote(poll_id, proof, public_inputs, is_yes_vote) ==
    /\ deployed = "VotingContract"
    /\ VotingContract_internal_vote_err(poll_id, proof, public_inputs) = ""
    /\ polls' = [polls EXCEPT ![poll_id] =
                    IF is_yes_vote THEN [@ EXCEPT !.yes_votes = @ + 1]
                    ELSE [@ EXCEPT !.no_votes = @ + 1]]
    /\ nullifiers' = nullifiers \cup {<<poll_id, KeyOf(public_inputs[1])>>}
    /\ Spend(<<poll_id, KeyOf(public_inputs[1])>>)
    /\ UNCHANGED <<next_poll_id, admin, block_timestamp>>
    /\ UNCHANGED <<deployed, verifier, commitments, commitments_list, owner, total_balance,
                   proof_count>>
    /\ UNCHANGED <<mvars, resolved, note_amount, deposit_vks, settled, vvars>>

VotingContract_vote_yes(poll_id, proof, public_inputs) ==
    VotingContract_internal_vote(poll_id, proof, public_inputs, TRUE)

VotingContract_vote_no(poll_id, proof, public_inputs) ==
    VotingContract_internal_vote(poll_id, proof, public_inputs, FALSE)

\* end_poll without its check of the end time (lines 336-341 removed)
VotingContract_end_poll_err_no_time_check(caller, poll_id) ==
    IF poll_id \notin DOMAIN polls THEN "Poll not found"
    ELSE IF ~(caller = polls[poll_id].creator \/ caller = admin)
         THEN "Only creator or admin can end poll"
    ELSE ""

VotingContract_end_poll_err(caller, poll_id) ==
    IF poll_id \notin DOMAIN polls THEN "Poll not found"
    ELSE IF ~(caller = polls[poll_id].creator \/ caller = admin)
         THEN "Only creator or admin can end poll"
    ELSE IF ~(block_timestamp >= polls[poll_id].ends_at)
         THEN "Poll has not reached its end time yet. Use cancel_poll() for emergencies."
    ELSE ""

VotingContract_end_poll(caller, poll_id) ==
    /\ deployed = "VotingContract"
    /\ VotingContract_end_poll_err(caller, poll_id) = ""
    /\ polls' = [polls EXCEPT ![poll_id].status = "Ended"]
    /\ UNCHANGED <<next_poll_id, admin, block_timestamp, cvars, mvars, hvars, vvars>>

VotingContract_cancel_poll_err(caller, poll_id) ==
    IF poll_id \notin DOMAIN polls THEN "Poll not found"
    ELSE IF caller # admin THEN "Only admin can cancel a poll"
    ELSE ""

VotingContract_cancel_poll(caller, poll_id) ==
    /\ deployed = "VotingContract"
    /\ VotingContract_cancel_poll_err(caller, poll_id) = ""
    /\ polls' = [polls EXCEPT ![poll_id].status = "Cancelled"]
    /\ UNCHANGED <<next_poll_id, admin, block_timestamp, cvars, mvars, hvars, vvars>>

VotingContract_has_voted(poll_id, nullifier) == <<poll_id, KeyOf(nullifier)>> \in nullifiers

\* the chain produces a block: an hour passes
VotingContract_next_block ==
    /\ deployed = "VotingContract"
    /\ block_timestamp < MaxTime
    /\ block_timestamp' = block_timestamp + 1
    /\ UNCHANGED <<polls, next_poll_id, admin, cvars, mvars, hvars, vvars>>

\* VotingContract::new, then its methods called in any order by any account
InitVoting ==
    /\ VerifierIdle
    /\ deployed = "VotingContract"
    /\ Constructed

NextVoting ==
    \/ \E caller \in Accounts, d \in Durations, wrapped \in 0..MaxTime :
         VotingContract_create_poll(caller, VoterRoot, d, wrapped)
    \/ \E p \in 1..MaxPolls, proof \in ProofJsons, pi \in VoteInputs :
         VotingContract_vote_yes(p, proof, pi)
    \/ \E p \in 1..MaxPolls, proof \in ProofJsons, pi \in VoteInputs :
         VotingContract_vote_no(p, proof, pi)
    \/ \E caller \in Accounts, p \in 1..MaxPolls : VotingContract_end_poll(caller, p)
    \/ \E caller \in Accounts, p \in 1..MaxPolls : VotingContract_cancel_poll(caller, p)
    \/ VotingContract_next_block

SpecVoting == InitVoting /\ [][NextVoting]_vars

\* ------------------------------------------------------------------------
\* The JSON variant of the API (types.rs from_json_array, Proof::from_json,
\* VerificationKey::from_json; verifier.rs from_json, verify_json).  A point
\* array is a sequence of strings, a G2 array a sequence of such rows.
\* ------------------------------------------------------------------------
ParseErr == [ok |-> FALSE]

\* U256::from_dec_str on a coordinate or input string of a document
U256_from_dec_str(s) == from_dec_str_loop(s, 1, U256_zero)

\* G1Point::from_json_array with unparsable coordinates taken for 0
G1Point_from_json_array_lenient(arr) ==
    IF Len(arr) < 2 THEN ParseErr
    ELSE [ok |-> TRUE,
          val |-> G1(U256_from_dec_str(arr[1]).val, U256_from_dec_str(arr[2]).val)]

\* G1Point::from_json_array: Err below two coordinates or on a coordinate
\* from_dec_str rejects; what follows the second coordinate is not read
G1Point_from_json_array(arr) ==
    IF Len(arr) < 2 THEN ParseErr
    ELSE Bind(U256_from_dec_str(arr[1]), LAMBDA x : IF ~x.ok THEN ParseErr ELSE
         Bind(U256_from_dec_str(arr[2]), LAMBDA y : IF ~y.ok THEN ParseErr ELSE
              [ok |-> TRUE, val |-> G1(x.val, y.val)]))

\* G2Point::from_json_array: Err below two rows, on a first or second row
\* below two entries, or on an entry from_dec_str rejects
G2Point_from_json_array(arr) ==
    IF Len(arr) < 2 THEN ParseErr
    ELSE IF Len(arr[1]) < 2 \/ Len(arr[2]) < 2 THEN ParseErr
    ELSE Bind(U256_from_dec_str(arr[1][1]), LAMBDA x0 : IF ~x0.ok THEN ParseErr ELSE
         Bind(U256_from_dec_str(arr[1][2]), LAMBDA x1 : IF ~x1.ok THEN ParseErr ELSE
         Bind(U256_from_dec_str(arr[2][1]), LAMBDA y0 : IF ~y0.ok THEN ParseErr ELSE
         Bind(U256_from_dec_str(arr[2][2]), LAMBDA y1 : IF ~y1.ok THEN ParseErr ELSE
              [ok |-> TRUE, val |-> G2(x0.val, x1.val, y0.val, y1.val)]))))

\* Proof::from_json
Proof_from_json(pi_a, pi_b, pi_c) ==
    Bind(G1Point_from_json_array(pi_a), LAMBDA a : IF ~a.ok THEN ParseErr ELSE
    Bind(G2Point_from_json_array(pi_b), LAMBDA b : IF ~b.ok THEN ParseErr ELSE
    Bind(G1Point_from_json_array(pi_c), LAMBDA c : IF ~c.ok THEN ParseErr ELSE
         [ok |-> TRUE, val |-> [a |-> a.val, b |-> b.val, c |-> c.val]])))

\* ProofJson::to_proof
to_proof(proof_json) == Proof_from_json(proof_json.pi_a, proof_json.pi_b, proof_json.pi_c)

\* ic.iter().map(G1Point::from_json_array).collect(): the points when every
\* entry parses, whatever their number
ic_points(ic) ==
    IF \E i \in 1..Len(ic) : ~G1Point_from_json_array(ic[i]).ok THEN ParseErr
    ELSE [ok |-> TRUE, val |-> [i \in 1..Len(ic) |-> G1Point_from_json_array(ic[i]).val]]

\* VerificationKey::from_json: the number of IC entries is not looked at
VerificationKey_from_json(vk_alpha_1, vk_beta_2, vk_gamma_2, vk_delta_2, ic) ==
    Bind(G1Point_from_json_array(vk_alpha_1), LAMBDA alpha : IF ~alpha.ok THEN ParseErr ELSE
    Bind(G2Point_from_json_array(vk_beta_2), LAMBDA beta : IF ~beta.ok THEN ParseErr ELSE
    Bind(G2Point_from_json_array(vk_gamma_2), LAMBDA gamma : IF ~gamma.ok THEN ParseErr ELSE
    Bind(G2Point_from_json_array(vk_delta_2), LAMBDA delta : IF ~delta.ok THEN ParseErr ELSE
    Bind(ic_points(ic), LAMBDA points : IF ~points.ok THEN ParseErr ELSE
         [ok |-> TRUE,
          val |-> [alpha |-> alpha.val, beta |-> beta.val, gamma |-> gamma.val,
                   delta |-> delta.val, ic |-> points.val]])))))

\* VerificationKeyJson::to_vk
to_vk(j) == VerificationKey_from_json(j.vk_alpha_1, j.vk_beta_2, j.vk_gamma_2, j.vk_delta_2, j.IC)

\* Verifier::from_json of verifier.rs on a key document: Verifier::new(vk_json.to_vk()?)
Verifier_from_key_json(j) == to_vk(j)

\* inputs.iter().map(U256::from_dec_str).collect()
parse_inputs(inputs) ==
    IF \E i \in 1..Len(inputs) : ~U256_from_dec_str(inputs[i]).ok THEN ParseErr
    ELSE [ok |-> TRUE, val |-> [i \in 1..Len(inputs) |-> U256_from_dec_str(inputs[i]).val]]

\* Verifier::verify_json of verifier.rs on a proof document and input strings
Verifier_verify_json(k, proof_json, inputs, host) ==
    Bind(to_proof(proof_json), LAMBDA proof :
         IF ~proof.ok THEN [ret |-> "false", calls |-> <<>>, x |-> None] ELSE
    Bind(parse_inputs(inputs), LAMBDA parsed :
         IF ~parsed.ok THEN [ret |-> "false", calls |-> <<>>, x |-> None] ELSE
         verify(k, parsed.val, proof.val, host)))

\* ------------------------------------------------------------------------
\* Documents the JSON model draws from
\* ------------------------------------------------------------------------
\* a G1 point as snarkjs writes it, with the projective "1" after (x, y)
SnarkjsG1 == <<<<"1">>, <<"2">>, <<"1">> >>

\* a G2 point as snarkjs writes it, with the row ["1", "0"] after x and y
SnarkjsG2 == << <<<<"1">>, <<"2">> >>, <<<<"1">>, <<"2">> >>, <<<<"1">>, <<"0">> >> >>

G1Arrays ==
    {SnarkjsG1,
     << <<"1">>, <<"2">> >>,
     << <<"1">> >>,
     << >>,
     << BadStr, <<"2">>, <<"1">> >>,
     << <<"1">>, TooBig, <<"1">> >>,
     << EmptyStr, <<"2">>, <<"1">> >>,
     << <<"1">>, <<"2">>, BadStr, TooBig >>}

G2Arrays ==
    {SnarkjsG2,
     << SnarkjsG2[1], SnarkjsG2[2] >>,
     << SnarkjsG2[1] >>,
     << << <<"1">> >>, SnarkjsG2[2], SnarkjsG2[3] >>,
     << SnarkjsG2[1], << <<"1">> >>, SnarkjsG2[3] >>,
     << SnarkjsG2[1], << <<"1">>, BadStr >>, SnarkjsG2[3] >>,
     << SnarkjsG2[1], SnarkjsG2[2], << BadStr >> >>}

\* proof documents: one of the three arrays varies at a time
ProofDocs ==
    {[pi_a |-> a, pi_b |-> SnarkjsG2, pi_c |-> SnarkjsG1] : a \in G1Arrays}
    \cup {[pi_a |-> SnarkjsG1, pi_b |-> b, pi_c |-> SnarkjsG1] : b \in G2Arrays}
    \cup {[pi_a |-> SnarkjsG1, pi_b |-> SnarkjsG2, pi_c |-> c] : c \in G1Arrays}

InputStrs == {<<"1">>, EmptyStr, BadStr}

\* key documents: IC arrays of 0..MaxIC well-formed points, one with a
\* one-coordinate entry, and one document whose alpha does not parse
KeyDocs ==
    {[vk_alpha_1 |-> SnarkjsG1, vk_beta_2 |-> SnarkjsG2, vk_gamma_2 |-> SnarkjsG2,
      vk_delta_2 |-> SnarkjsG2, IC |-> ic] :
        ic \in {[i \in 1..m |-> SnarkjsG1] : m \in 0..MaxIC}
               \cup {<<SnarkjsG1, << <<"1">> >> >>}}
    \cup {[vk_alpha_1 |-> << <<"1">> >>, vk_beta_2 |-> SnarkjsG2, vk_gamma_2 |-> SnarkjsG2,
           vk_delta_2 |-> SnarkjsG2, IC |-> <<SnarkjsG1>>]}

\* hosts that answer with points of the right length
JsonHosts == {h \in Hosts : Len(h.msm) = G1Bytes /\ Len(h.sum) = G1Bytes}

\* a key document about to be parsed and one pending call of verify_json
InitJson ==
    /\ key_json \in KeyDocs
    /\ vk = <<>>
    /\ call \in [inputs : SeqsUpTo(InputStrs, MaxInputs), proof : ProofDocs, host : JsonHosts]
    /\ ret = "none"
    /\ calls = <<>>
    /\ vk_x = None
    /\ LibIdle
    /\ TemplatesIdle

\* Verifier::from_json: the verifier exists when the document parses
FromJson ==
    /\ vk = <<>>
    /\ ret = "none"
    /\ \E r \in {Verifier_from_key_json(key_json)} :
           IF r.ok THEN vk' = r.val /\ ret' = ret
           ELSE vk' = vk /\ ret' = "no verifier"
    /\ UNCHANGED <<key_json, call, calls, vk_x, lvars, cvars, mvars, hvars, pvars>>

\* Verifier::verify_json on the verifier made by from_json
VerifyJson ==
    /\ vk # <<>>
    /\ ret = "none"
    /\ \E v \in {Verifier_verify_json(vk, call.proof, call.inputs, call.host)} :
           /\ ret' = v.ret
           /\ calls' = v.calls
           /\ vk_x' = v.x
    /\ UNCHANGED <<key_json, vk, call, lvars, cvars, mvars, hvars, pvars>>

NextJson == FromJson \/ VerifyJson

SpecJson == InitJson /\ [][NextJson]_vars

\* ------------------------------------------------------------------------
\* The templates: one is deployed by its constructor, then called
\* ------------------------------------------------------------------------
Templates == {"ZkContract", "PrivacyContract", "NearPrivacyPool", "MultiAssetPool"}

InitT ==
    /\ VerifierIdle
    /\ deployed \in Templates
    /\ Constructed

NextT ==
    \/ \E proof \in ProofJsons, pi \in NearInputs : ZkContract_verify_and_register(proof, pi)
    \/ \E caller \in Accounts, j \in VkJsons : ZkContract_update_verification_key(caller, j)
    \/ \E proof \in ProofJsons, pi \in NearInputs :
         PrivacyContract_verify_and_register(proof, pi)
    \/ \E caller \in Accounts, c \in CommitStrs \cup {BadStr} :
         PrivacyContract_add_commitment(caller, c)
    \/ \E caller \in Accounts, j \in VkJsons :
         PrivacyContract_update_verification_key(caller, j)
    \/ \E caller \in Accounts, new_owner \in Accounts :
         PrivacyContract_transfer_ownership(caller, new_owner)
    \/ \E c \in CommitStrs \cup {BadStr}, attached \in 0..MaxAmount :
         NearPrivacyPool_deposit(c, attached)
    \/ \E proof \in ProofJsons, pi \in NearInputs, amount \in AmountStrs :
         NearPrivacyPool_withdraw(proof, pi, amount)
    \/ \E proof \in ProofJsons, pi \in NearInputs : NearPrivacyPool_transfer(proof, pi)
    \/ \E caller \in Accounts, j \in VkJsons :
         NearPrivacyPool_update_verification_key(caller, j)
    \/ \E caller \in Accounts, new_owner \in Accounts :
         NearPrivacyPool_transfer_ownership(caller, new_owner)
    \/ \E c \in CommitStrs \cup {BadStr}, attached \in 0..MaxAmount :
         MultiAssetPool_deposit_near(c, attached)
    \/ \E proof \in ProofJsons, pi \in MultiInputs, amount \in AmountStrs :
         MultiAssetPool_withdraw_near(proof, pi, amount)
    \/ \E t \in TokenContracts \cup {"user.near"}, amount \in 0..MaxAmount,
          msg \in DepositMsgs :
         MultiAssetPool_ft_on_transfer(t, amount, msg)
    \/ \E proof \in ProofJsons, pi \in MultiInputs, amount \in AmountStrs,
          t \in TokenContracts :
         MultiAssetPool_withdraw_ft(proof, pi, amount, t)
    \/ \E i \in 1..MaxNotes, result \in PromiseResults :
         MultiAssetPool_ft_resolve_transfer(i, result)
    \/ \E proof \in ProofJsons, pi \in MultiInputs : MultiAssetPool_transfer(proof, pi)
    \/ \E caller \in Accounts, t \in TokenContracts : MultiAssetPool_register_token(caller, t)
    \/ \E caller \in Accounts, t \in TokenContracts, a \in {UsdcAssetId, BadStr} :
         MultiAssetPool_set_token_asset_id(caller, t, a)
    \/ \E caller \in Accounts, t \in TokenContracts :
         MultiAssetPool_unregister_token(caller, t)
    \/ \E caller \in Accounts, new_owner \in Accounts :
         MultiAssetPool_transfer_ownership(caller, new_owner)

SpecT == InitT /\ [][NextT]_vars

\* ------------------------------------------------------------------------
\* Properties of the templates
\* ------------------------------------------------------------------------
SpendInputs == NearInputs \cup MultiInputs

\* what the spending methods of the deployed contract answer to a call with
\* this proof and these public inputs, whatever its other arguments
SpendErrs(proof, pi) ==
    CASE deployed = "ZkContract" -> {ZkContract_verify_and_register_err(proof, pi)}
      [] deployed = "PrivacyContract" -> {PrivacyContract_verify_and_register_err(proof, pi)}
      [] deployed = "NearPrivacyPool" ->
           {NearPrivacyPool_withdraw_err(proof, pi, a) : a \in AmountStrs}
           \cup {NearPrivacyPool_transfer_err(proof, pi)}
      [] deployed = "MultiAssetPool" ->
           {MultiAssetPool_withdraw_near_err(proof, pi, a) : a \in AmountStrs}
           \cup {MultiAssetPool_withdraw_ft_err(proof, pi, a, t) :
                   a \in AmountStrs, t \in TokenContracts}
           \cup {MultiAssetPool_transfer_err(proof, pi)}
      [] OTHER -> {}

NullifierUsedMsgs ==
    {"Nullifier already used", "Nullifier already used - possible double-spend attempt",
     "Nullifier already used - note already spent",
     "Nullifier already used - input note already spent"}

\* C5: nullifier single use.  In every template at most one call goes through
\* for a 32-byte nullifier; from then on is_nullifier_used answers true for
\* every string of that value and every call carrying it is rejected.
C5_NullifierSingleUse ==
    /\ \A n \in DOMAIN uses : uses[n] = 1
    /\ \A s \in NullStrs : KeyOf(s) \in DOMAIN uses => is_nullifier_used(s)
    /\ \A proof \in ProofJsons, pi \in SpendInputs :
          (/\ Len(pi) >= 1
           /\ from_dec_str(pi[1]).ok
           /\ KeyOf(pi[1]) \in DOMAIN uses) => "" \notin SpendErrs(proof, pi)

\* a nullifier is spent, and a call that carries it under another spelling,
\* with a proof for the key in force, is turned down for that reason
C5_Witness ==
    \E s \in NullStrs, c \in ProofJsons \X SpendInputs :
        /\ KeyOf(s) \in DOMAIN uses
        /\ Len(c[2]) >= 1 /\ c[2][1] # s /\ KeyOf(c[2][1]) = KeyOf(s)
        /\ verify_json(verifier, c[1], c[2])
        /\ SpendErrs(c[1], c[2]) \cap NullifierUsedMsgs # {}

\* the notes not spent: their nullifier is not in the nullifier set
UnspentNotes ==
    {k \in NoteIds : /\ KeyOf(NoteCommitment(k)) \in DOMAIN note_amount
                     /\ KeyOf(NoteNullifier(k)) \notin nullifiers}

RECURSIVE SumAmounts(_)
SumAmounts(ks) ==
    IF ks = {} THEN 0
    ELSE LET k == CHOOSE x \in ks : TRUE
         IN  note_amount[KeyOf(NoteCommitment(k))] + SumAmounts(ks \ {k})

\* C6: in NearPrivacyPool total_balance is the sum of the deposited amounts of
\* the notes that have not been spent.
C6_BalanceIsUnspentSum ==
    deployed = "NearPrivacyPool" => total_balance = SumAmounts(UnspentNotes)

\* C7: a MultiAssetPool withdrawal that goes through pays the amount its
\* public inputs carry: the amount argument equals public_inputs[2].
C7_PaidIsProven ==
    [][\A proof \in ProofJsons, pi \in MultiInputs, amount \in AmountStrs :
         (\/ MultiAssetPool_withdraw_near(proof, pi, amount)
          \/ \E t \in TokenContracts : MultiAssetPool_withdraw_ft(proof, pi, amount, t))
         => Len(pi) >= 3 /\ from_dec_str(amount).val = from_dec_str(pi[3]).val]_vars

DuplicateMsg == "Commitment already exists - cannot reuse commitments"

\* a withdrawal of an asset with a fresh nullifier, a proof that verifies and
\* an amount the asset's balance covers
FreshValidCovered(proof, pi, amount, asset_id) ==
    /\ Len(pi) >= 2 /\ pi[2] = asset_id
    /\ from_dec_str(pi[1]).ok /\ KeyOf(pi[1]) \notin nullifiers
    /\ Provable(proof, pi) /\ verify_json(verifier, proof, pi)
    /\ ValueOf(amount) <= Get(asset_balances, asset_id, 0)

\* no such withdrawal is turned down for a commitment that already exists
NoDuplicateRejection ==
    \A proof \in ProofJsons, pi \in MultiInputs, amount \in AmountStrs :
        /\ FreshValidCovered(proof, pi, amount, NearAssetId) =>
              MultiAssetPool_withdraw_near_err(proof, pi, amount) # DuplicateMsg
        /\ \A t \in DOMAIN token_asset_ids :
              FreshValidCovered(proof, pi, amount, token_asset_ids[t]) =>
                  MultiAssetPool_withdraw_ft_err(proof, pi, amount, t) # DuplicateMsg

\* C8: a MultiAssetPool withdrawal leaves commitments and commitments_list as
\* they were, and no later withdrawal is rejected as a duplicate commitment.
C8_WithdrawKeepsCommitments ==
    [][/\ \A proof \in ProofJsons, pi \in MultiInputs, amount \in AmountStrs :
            (\/ MultiAssetPool_withdraw_near(proof, pi, amount)
             \/ \E t \in TokenContracts : MultiAssetPool_withdraw_ft(proof, pi, amount, t))
            => UNCHANGED <<commitments, commitments_list>>
       /\ deployed = "MultiAssetPool" => NoDuplicateRejection']_vars

\* every asset's balance, with its pending withdrawals added back, is the
\* balance without the withdrawals whose ft_transfer has not succeeded
BalancesSettled ==
    \A a \in DOMAIN asset_balances \cup DOMAIN settled :
        Get(asset_balances, a, 0) + PendingSum(pending, a) = Get(settled, a, 0)

\* C9: when the ft_transfer of a withdraw_ft fails, ft_resolve_transfer adds
\* the withdrawn amount back to that asset and to nothing else, so that the
\* balance is what it would be without that withdrawal whatever ran in
\* between; when it succeeds the callback changes no balance.
C9_ResolveRestores ==
    [][/\ \A i \in 1..Len(pending) :
            /\ MultiAssetPool_ft_resolve_transfer(i, "Failed") =>
                 asset_balances' = Put(asset_balances, pending[i].asset_id,
                                       Get(asset_balances, pending[i].asset_id, 0)
                                       + pending[i].amount)
            /\ MultiAssetPool_ft_resolve_transfer(i, "Successful") =>
                 asset_balances' = asset_balances
       /\ BalancesSettled']_vars

\* a callback after a failed ft_transfer, with the balance changed by other
\* calls since the withdraw_ft
C9_Witness ==
    /\ resolved.promise = "Failed"
    /\ resolved.interleaved
    /\ BalancesSettled

\* C10: in NearPrivacyPool funds leave only on a proof made for a key that
\* was in force when notes were deposited, whatever the owner does.
C10_OwnerCannotSteal ==
    [][\A proof \in ProofJsons, pi \in NearInputs, amount \in AmountStrs :
         NearPrivacyPool_withdraw(proof, pi, amount) => proof.vk \in deposit_vks]_vars

\* ------------------------------------------------------------------------
\* Properties of VotingContract
\* ------------------------------------------------------------------------
AlreadyVotedMsg == "You have already voted in this poll"

\* C11: double-vote prevention.  At most one vote goes through for a poll and
\* a 32-byte nullifier; from then on has_voted answers true for every string
\* of that value and every vote in that poll carrying it is rejected, while a
\* vote with it in a poll where it has not voted is not rejected as a repeat.
C11_NoDoubleVote ==
    deployed = "VotingContract" =>
        /\ \A k \in DOMAIN uses : uses[k] = 1
        /\ \A p \in PollIds, s \in VoterNullifiers :
              <<p, KeyOf(s)>> \in DOMAIN uses => VotingContract_has_voted(p, s)
        /\ \A p \in PollIds, proof \in ProofJsons, pi \in VoteInputs :
              /\ (/\ Len(pi) >= 1
                  /\ from_dec_str(pi[1]).ok
                  /\ <<p, KeyOf(pi[1])>> \in DOMAIN uses)
                    => VotingContract_internal_vote_err(p, proof, pi) # ""
              /\ (/\ Len(pi) >= 1
                  /\ from_dec_str(pi[1]).ok
                  /\ <<p, KeyOf(pi[1])>> \notin DOMAIN uses)
                    => VotingContract_internal_vote_err(p, proof, pi) # AlreadyVotedMsg

\* one nullifier has voted in two polls, and a vote that carries it under
\* another spelling is turned down as a repeat
C11_Witness ==
    \E s \in VoterNullifiers :
        /\ \A p \in PollIds : <<p, KeyOf(s)>> \in DOMAIN uses
        /\ \E p \in PollIds, proof \in ProofJsons, pi \in VoteInputs :
              /\ Len(pi) >= 1 /\ pi[1] # s /\ KeyOf(pi[1]) = KeyOf(s)
              /\ VotingContract_internal_vote_err(p, proof, pi) = AlreadyVotedMsg

\* C12: end_poll goes through only for the poll's creator or the admin and
\* only once the block time has reached ends_at; nothing else sets Ended, so
\* every poll that is Ended has reached its end time.
C12_EndedOnlyAfterEnd ==
    [][/\ \A caller \in Accounts, p \in PollIds :
            VotingContract_end_poll(caller, p)
                => /\ caller = polls[p].creator \/ caller = admin
                   /\ block_timestamp >= polls[p].ends_at
       /\ \A p \in DOMAIN polls :
            (polls[p].status # "Ended" /\ polls'[p].status = "Ended")
                => \E caller \in Accounts : VotingContract_end_poll(caller, p)
       /\ \A p \in DOMAIN polls' :
            polls'[p].status = "Ended" => block_timestamp' >= polls'[p].ends_at]_vars

\* a poll ended by a creator who is not the admin, after time has passed, and
\* another poll whose creator is refused because its time has not come
C12_Witness ==
    /\ \E p \in DOMAIN polls :
          /\ polls[p].status = "Ended"
          /\ polls[p].creator # admin
          /\ polls[p].ends_at > 0
    /\ \E q \in DOMAIN polls :
          /\ polls[q].status = "Active"
          /\ VotingContract_end_poll_err(polls[q].creator, q)
               = "Poll has not reached its end time yet. Use cancel_poll() for emergencies."

\* C13: cancel_poll goes through only for the admin and marks the poll
\* Cancelled, and a poll that is Cancelled stays Cancelled whatever is called.
C13_CancelledStays ==
    [][/\ \A caller \in Accounts, p \in PollIds :
            VotingContract_cancel_poll(caller, p)
                => caller = admin /\ polls'[p].status = "Cancelled"
       /\ \A p \in DOMAIN polls :
            polls[p].status = "Cancelled" => polls'[p].status = "Cancelled"]_vars

\* the tally of a poll
Tally(poll) == <<poll.yes_votes, poll.no_votes>>

\* a poll that takes no more votes
Closed(poll, now) == poll.status # "Active" \/ now >= poll.ends_at

\* C14: a poll's tally changes only by a vote that goes through, and only
\* while the poll is Active and the block time is before ends_at; a poll that
\* is Ended or Cancelled or past its end time stays so and keeps its tally.
C14_TallyOnlyByVote ==
    [][\A p \in DOMAIN polls :
         /\ Tally(polls'[p]) # Tally(polls[p])
              => /\ \E proof \in ProofJsons, pi \in VoteInputs :
                       \/ VotingContract_vote_yes(p, proof, pi)
                       \/ VotingContract_vote_no(p, proof, pi)
                 /\ polls[p].status = "Active"
                 /\ block_timestamp < polls[p].ends_at
         /\ Closed(polls[p], block_timestamp)
              => /\ Tally(polls'[p]) = Tally(polls[p])
                 /\ Closed(polls'[p], block_timestamp')]_vars

\* a poll with a vote counted that has been ended, and a cancelled one
C14_Witness ==
    /\ \E p \in DOMAIN polls :
          /\ polls[p].yes_votes + polls[p].no_votes >= 1
          /\ polls[p].status = "Ended"
    /\ \E q \in DOMAIN polls : polls[q].status = "Cancelled"

\* ------------------------------------------------------------------------
\* Properties of MultiAssetPool's token handling and of the admin methods
\* ------------------------------------------------------------------------
FtCallers == TokenContracts \cup {"user.near"}

\* the calling token is whitelisted, has an asset id configured, and the
\* message names that id
FtDepositAllowed(t, msg) ==
    /\ t \in registered_tokens
    /\ t \in DOMAIN token_asset_ids
    /\ msg.ok /\ msg.asset_id = token_asset_ids[t]

\* C15: ft_on_transfer registers a deposit (the commitment added, the balance
\* of the token's asset raised by the amount) only for a caller that is in
\* registered_tokens with an asset id configured and named by the message;
\* every other call is rejected; unregister_token takes the token off the
\* whitelist and only register_token puts it back.
C15_FtDepositWhitelisted ==
    [][/\ \A t \in FtCallers, amount \in 0..MaxAmount, msg \in DepositMsgs :
            /\ MultiAssetPool_ft_on_transfer(t, amount, msg)
                 => /\ FtDepositAllowed(t, msg)
                    /\ commitments' = commitments \cup {KeyOf(msg.commitment)}
                    /\ asset_balances' =
                         Put(asset_balances, token_asset_ids[t],
                             Get(asset_balances, token_asset_ids[t], 0) + amount)
            /\ ~FtDepositAllowed(t, msg)
                 => MultiAssetPool_ft_on_transfer_err(t, amount, msg) # ""
       /\ \A t \in TokenContracts :
            /\ (\E caller \in Accounts : MultiAssetPool_unregister_token(caller, t))
                 => t \notin registered_tokens'
            /\ (t \notin registered_tokens /\ t \in registered_tokens')
                 => \E caller \in Accounts : MultiAssetPool_register_token(caller, t)]_vars

\* a token that has made a deposit, is off the whitelist again with its asset
\* id still configured, and whose next deposit is refused for that reason
C15_Witness ==
    /\ deployed = "MultiAssetPool"
    /\ Get(asset_balances, UsdcAssetId, 0) > 0
    /\ "usdc.near" \notin registered_tokens
    /\ "usdc.near" \in DOMAIN token_asset_ids
    /\ \E msg \in DepositMsgs :
          /\ msg.ok /\ msg.asset_id = token_asset_ids["usdc.near"]
          /\ MultiAssetPool_ft_on_transfer_err("usdc.near", 1, msg)
               = "Token contract is not registered"

\* the step changes no balance but that of asset_id
OnlyBalanceOf(asset_id) ==
    \A b \in DOMAIN asset_balances \cup DOMAIN asset_balances' :
        b # asset_id => Get(asset_balances', b, 0) = Get(asset_balances, b, 0)

\* the step takes `amount` from the balance of asset_id and changes no other
Debits(asset_id, amount) ==
    asset_balances' = Put(asset_balances, asset_id,
                          Get(asset_balances, asset_id, 0) - ValueOf(amount))

\* the public inputs a step that adds a nullifier can have carried
InputsOfStep ==
    {pi \in MultiInputs : /\ Len(pi) >= 2
                          /\ KeyOf(pi[1]) \in nullifiers'
                          /\ KeyOf(pi[1]) \notin nullifiers}

\* the proofs such a step can have carried: those for the key in force
ProofsOfStep == {proof \in ProofJsons : proof.vk = verifier.id}

\* C16: asset binding.  withdraw_ft goes through only with public_inputs[1]
\* equal to the asset id configured for the token and debits that asset's
\* balance alone; withdraw_near goes through only with public_inputs[1] = "0"
\* and debits the balance of "0" alone; a deposit changes the balance of its
\* own asset id and of no other.  (A withdrawal adds a nullifier; a deposit
\* adds a commitment and no nullifier.)
C16_AssetBinding ==
    [][/\ nullifiers' # nullifiers =>
            \A proof \in ProofsOfStep, pi \in InputsOfStep, amount \in AmountStrs :
                /\ \A t \in TokenContracts :
                     MultiAssetPool_withdraw_ft(proof, pi, amount, t)
                        => /\ pi[2] = token_asset_ids[t]
                           /\ Debits(token_asset_ids[t], amount)
                /\ MultiAssetPool_withdraw_near(proof, pi, amount)
                     => /\ pi[2] = NearAssetId
                        /\ Debits(NearAssetId, amount)
       /\ (nullifiers' = nullifiers /\ commitments' # commitments) =>
            /\ \A c \in CommitStrs, attached \in 0..MaxAmount :
                 MultiAssetPool_deposit_near(c, attached) => OnlyBalanceOf(NearAssetId)
            /\ \A t \in FtCallers, amount \in 0..MaxAmount, msg \in DepositMsgs :
                 MultiAssetPool_ft_on_transfer(t, amount, msg)
                    => OnlyBalanceOf(token_asset_ids[t])]_vars

\* both assets hold a balance, a withdraw_ft has been made, and a withdraw_ft
\* whose public inputs name NEAR is refused for the token
C16_Witness ==
    /\ deployed = "MultiAssetPool"
    /\ Get(asset_balances, NearAssetId, 0) > 0
    /\ Get(asset_balances, UsdcAssetId, 0) > 0
    /\ pending # <<>>
    /\ \E proof \in ProofJsons, pi \in MultiInputs, amount \in AmountStrs :
          /\ Len(pi) >= 2 /\ pi[2] = NearAssetId
          /\ MultiAssetPool_withdraw_ft_err(proof, pi, amount, "usdc.near") = "AssetId mismatch"

\* a step of update_verification_key made by caller
UpdateKeyStep(caller) ==
    \E j \in VkJsons :
        \/ PrivacyContract_update_verification_key(caller, j)
        \/ NearPrivacyPool_update_verification_key(caller, j)
        \/ ZkContract_update_verification_key(caller, j)

\* a step of transfer_ownership(new_owner) made by caller
TransferStep(caller, new_owner) ==
    \/ PrivacyContract_transfer_ownership(caller, new_owner)
    \/ NearPrivacyPool_transfer_ownership(caller, new_owner)
    \/ MultiAssetPool_transfer_ownership(caller, new_owner)

\* a step of any admin method made by caller
AdminStep(caller) ==
    \/ \E c \in CommitStrs \cup {BadStr} : PrivacyContract_add_commitment(caller, c)
    \/ UpdateKeyStep(caller)
    \/ \E n \in Accounts : TransferStep(caller, n)
    \/ \E t \in TokenContracts :
          \/ MultiAssetPool_register_token(caller, t)
          \/ MultiAssetPool_unregister_token(caller, t)
          \/ \E a \in {UsdcAssetId, BadStr} : MultiAssetPool_set_token_asset_id(caller, t, a)

\* the admin methods are open to the owner and to nobody else
AdminOpenToOwnerOnly ==
    \A caller \in Accounts : (ENABLED AdminStep(caller)) <=> (caller = owner)

\* C17: owner-only administration.  An admin method goes through only for the
\* current owner; the stored key changes only by update_verification_key and
\* the owner only by transfer_ownership(n), which makes n the owner; in every
\* state the admin methods are open to the owner and closed to everyone else.
C17_OwnerOnlyAdmin ==
    /\ []AdminOpenToOwnerOnly
    /\ [][/\ \A caller \in Accounts : AdminStep(caller) => caller = owner
          /\ verifier' # verifier => \E caller \in Accounts : UpdateKeyStep(caller)
          /\ owner' # owner => \E caller \in Accounts : TransferStep(caller, owner')
          /\ \A caller \in Accounts, n \in Accounts :
                TransferStep(caller, n) => owner' = n]_vars

\* ownership has passed to user.near, who has replaced the key; the previous
\* owner's update_verification_key is refused and the new owner's is not
C17_Witness ==
    /\ deployed = "NearPrivacyPool"
    /\ owner = "user.near"
    /\ verifier.id = "other"
    /\ \E j \in VkJsons :
          /\ NearPrivacyPool_update_verification_key_err("owner.near", j)
               = "Only owner can update verification key"
          /\ NearPrivacyPool_update_verification_key_err("user.near", j) = ""

\* ------------------------------------------------------------------------
\* The JSON API: keys, proofs and inputs as documents
\* ------------------------------------------------------------------------
\* Verifier::from_json has returned a verifier
KeyParsed == key_json # <<>> /\ vk # <<>>

\* C18: every key the parser returns (VerificationKey::from_json through
\* VerificationKeyJson::to_vk and Verifier::from_json) has at least one IC
\* point, and num_inputs is the number of IC points less one; a document
\* with an empty IC array is rejected.
C18_ParsedKeyHasIC ==
    KeyParsed => /\ Len(vk.ic) >= 1
                 /\ num_inputs(vk) = Len(vk.ic) - 1
                 /\ key_json.IC # <<>>

\* verify_json has returned on a verifier made by from_json
JsonReturned == KeyParsed /\ ret # "none"

AllDigits(s) == \A i \in 1..Len(s) : s[i] \in DOMAIN DigitValue

\* the number of leading zeros of s from position i on
RECURSIVE LeadingZeros(_, _)
LeadingZeros(s, i) ==
    IF i <= Len(s) /\ s[i] = "0" THEN 1 + LeadingZeros(s, i + 1) ELSE 0

\* for digit strings of one length, from position i on: a is below b
RECURSIVE DigitsBelow(_, _, _)
DigitsBelow(a, b, i) ==
    IF i > Len(a) THEN FALSE
    ELSE IF a[i] # b[i] THEN DigitValue[a[i]] < DigitValue[b[i]]
    ELSE DigitsBelow(a, b, i + 1)

\* s is the decimal writing of a value below 2^256
DecimalU256(s) ==
    /\ AllDigits(s)
    /\ LET z == LeadingZeros(s, 1)
       IN  \/ Len(s) - z < Len(TooBig)
           \/ Len(s) - z = Len(TooBig) /\ DigitsBelow(SubSeq(s, z + 1, Len(s)), TooBig, 1)

\* the ways a G1 array, a G2 array and a proof document fail to parse
MalformedG1(arr) ==
    \/ Len(arr) < 2
    \/ ~DecimalU256(arr[1])
    \/ ~DecimalU256(arr[2])

MalformedG2(arr) ==
    \/ Len(arr) < 2
    \/ Len(arr[1]) < 2
    \/ Len(arr[2]) < 2
    \/ \E i \in 1..2, j \in 1..2 : ~DecimalU256(arr[i][j])

ProofUnparsable(doc) ==
    MalformedG1(doc.pi_a) \/ MalformedG2(doc.pi_b) \/ MalformedG1(doc.pi_c)

InputsUnparsable(inputs) == \E i \in 1..Len(inputs) : ~DecimalU256(inputs[i])

\* the first n entries of a sequence, or all of it when it is shorter
Take(s, n) == SubSeq(s, 1, IF Len(s) < n THEN Len(s) ELSE n)

\* a proof document without what follows (x, y) in its point arrays
WithoutTrailing(doc) ==
    [pi_a |-> Take(doc.pi_a, 2),
     pi_b |-> [i \in 1..Len(Take(doc.pi_b, 2)) |-> Take(doc.pi_b[i], 2)],
     pi_c |-> Take(doc.pi_c, 2)]

WrongLengthAnswer(f, answer) == CallsTo(f) # <<>> /\ Len(answer) # G1Bytes

\* C20: when g1_multiexp or g1_sum answers with a buffer that is not 64
\* bytes long, verify returns false and pairing_check is never called.
C20_WrongLengthReturnsFalse ==
    (/\ Returned
     /\ \/ WrongLengthAnswer("g1_multiexp", call.host.msm)
        \/ WrongLengthAnswer("g1_sum", call.host.sum))
        => /\ ret = "false"
           /\ CallsTo("pairing_check") = <<>>

\* g1_multiexp answered with a point, g1_sum with 65 bytes
C20_Witness ==
    /\ Returned
    /\ Len(call.host.msm) = G1Bytes
    /\ WrongLengthAnswer("g1_sum", call.host.sum)
    /\ ret = "false"

\* ------------------------------------------------------------------------
\* The point codecs on their own (types.rs): a point is written and read
\* back, a G2 array of a document is parsed and written, a point is negated
\* ------------------------------------------------------------------------
U256_max == [i \in 1..WordBytes |-> 255]

\* q + 1
AboveModulus == [field_modulus EXCEPT ![1] = 72]

CodecWords == {U256_zero, FromU64(1), FromU64(123456), field_modulus, U256_max}

G2Words == {FromU64(1), FromU64(2), FromU64(3), FromU64(4), U256_max}

NegateWords == CodecWords \cup {AboveModulus, FromU64(2)}

\* coordinate strings of a document, with the values they write
CoordValue ==
    [s \in {<<"1">>, <<"2">>, <<"3">>, <<"1", "0">>} |->
        CASE s = <<"1">> -> 1 [] s = <<"2">> -> 2 [] s = <<"3">> -> 3 [] s = <<"1", "0">> -> 10]

CodecJobs ==
    {[fn |-> "G1Point", p |-> G1(x, y)] : x \in CodecWords, y \in CodecWords}
    \cup {[fn |-> "G2Point", p |-> G2(x0, x1, y0, y1)] :
              x0 \in G2Words, x1 \in G2Words, y0 \in G2Words, y1 \in G2Words}
    \cup {[fn |-> "negate_g1", p |-> G1(x, y)] : x \in NegateWords, y \in NegateWords}
    \cup {[fn |-> "G2Point::from_json_array", arr |-> << <<x0, x1>>, <<y0, y1>>, SnarkjsG2[3] >>] :
              x0 \in DOMAIN CoordValue, x1 \in DOMAIN CoordValue,
              y0 \in DOMAIN CoordValue, y1 \in DOMAIN CoordValue}
    \cup {[fn |-> "G2Point::from_json_array", arr |-> a] : a \in G2Arrays}

InitCodec ==
    /\ job \in CodecJobs
    /\ returned = <<>>
    /\ key_json = <<>>
    /\ vk = <<>>
    /\ call = <<>>
    /\ ret = "none"
    /\ calls = <<>>
    /\ vk_x = <<>>
    /\ TemplatesIdle

\* G1Point::to_bytes
ToBytesG1 ==
    /\ job.fn = "G1Point"
    /\ returned = <<>>
    /\ returned' = <<G1_to_bytes(job.p)>>
    /\ UNCHANGED <<job, key_json, vk, call, ret, calls, vk_x, cvars, mvars, hvars, pvars>>

\* G1Point::from_bytes of what to_bytes wrote
FromBytesG1 ==
    /\ job.fn = "G1Point"
    /\ Len(returned) = 1
    /\ returned' = Append(returned, G1_from_bytes(returned[1]))
    /\ UNCHANGED <<job, key_json, vk, call, ret, calls, vk_x, cvars, mvars, hvars, pvars>>

\* G2Point::from_json_array
FromJsonArrayG2 ==
    /\ job.fn = "G2Point::from_json_array"
    /\ returned = <<>>
    /\ \E r \in {G2Point_from_json_array(job.arr)} : returned' = <<r>>
    /\ UNCHANGED <<job, key_json, vk, call, ret, calls, vk_x, cvars, mvars, hvars, pvars>>

\* G2Point::to_bytes of the point given or of the point parsed
ToBytesG2 ==
    /\ \/ /\ job.fn = "G2Point"
          /\ returned = <<>>
          /\ returned' = <<G2_to_bytes(job.p)>>
       \/ /\ job.fn = "G2Point::from_json_array"
          /\ Len(returned) = 1
          /\ returned[1].ok
          /\ returned' = Append(returned, G2_to_bytes(returned[1].val))
    /\ UNCHANGED <<job, key_json, vk, call, ret, calls, vk_x, cvars, mvars, hvars, pvars>>

\* G2Point::from_bytes of what to_bytes wrote
FromBytesG2 ==
    /\ job.fn = "G2Point"
    /\ Len(returned) = 1
    /\ returned' = Append(returned, G2_from_bytes(returned[1]))
    /\ UNCHANGED <<job, key_json, vk, call, ret, calls, vk_x, cvars, mvars, hvars, pvars>>

\* negate_g1
NegateG1 ==
    /\ job.fn = "negate_g1"
    /\ returned = <<>>
    /\ returned' = <<negate_g1(job.p)>>
    /\ UNCHANGED <<job, key_json, vk, call, ret, calls, vk_x, cvars, mvars, hvars, pvars>>

NextCodec ==
    \/ ToBytesG1
    \/ FromBytesG1
    \/ FromJsonArrayG2
    \/ ToBytesG2
    \/ FromBytesG2
    \/ NegateG1

SpecCodec == InitCodec /\ [][NextCodec]_vars

\* the codec job under way is of function f and has returned n values
CodecAt(f, n) == job # <<>> /\ job.fn = f /\ Len(returned) = n

\* C21: a G1 point written by to_bytes and read by from_bytes is the point
\* written, and so is a G2 point, each of x[0], x[1], y[0], y[1] in its own
\* position.
C21_CodecRoundTrip ==
    /\ CodecAt("G1Point", 2) =>
           returned[2].x = job.p.x /\ returned[2].y = job.p.y
    /\ CodecAt("G2Point", 2) =>
           /\ returned[2].x[1] = job.p.x[1]
           /\ returned[2].x[2] = job.p.x[2]
           /\ returned[2].y[1] = job.p.y[1]
           /\ returned[2].y[2] = job.p.y[2]

\* a G2 point of four different coordinates, one of them of 32 non-zero
\* bytes, has been written and read back
C21_Witness ==
    /\ CodecAt("G2Point", 2)
    /\ Cardinality({job.p.x[1], job.p.x[2], job.p.y[1], job.p.y[2]}) = 4
    /\ U256_max \in {job.p.x[1], job.p.x[2], job.p.y[1], job.p.y[2]}

\* the 32 bytes of buf from offset off (counted from 0) are v, big-endian
HoldsBigEndian(buf, off, v) == \A k \in 1..WordBytes : buf[off + k] = v[WordBytes + 1 - k]

\* the 32 bytes of buf from offset off are the big-endian writing of n < 256
HoldsSmall(buf, off, n) ==
    /\ \A k \in 1..(WordBytes - 1) : buf[off + k] = 0
    /\ buf[off + WordBytes] = n

\* a G2 array whose first two rows are pairs of coordinate strings
PairsOfCoords(arr) ==
    /\ Len(arr) >= 2
    /\ \A i \in 1..2 : Len(arr[i]) = 2 /\ \A j \in 1..2 : arr[i][j] \in DOMAIN CoordValue

BaseModulusStr ==
    <<"2", "1", "8", "8", "8", "2", "4", "2", "8", "7", "1", "8", "3",
      "9", "2", "7", "5", "2", "2", "2", "2", "4", "6", "4", "0", "5",
      "7", "4", "5", "2", "5", "7", "2", "7", "5", "0", "8", "8", "6",
      "9", "6", "3", "1", "1", "1", "5", "7", "2", "9", "7", "8", "2",
      "3", "6", "6", "2", "6", "8", "9", "0", "3", "7", "8", "9", "4",
      "6", "4", "5", "2", "2", "6", "2", "0", "8", "5", "8", "3">>

\* carry out of the low i bytes of a + b
RECURSIVE CarryOut(_, _, _)
CarryOut(a, b, i) ==
    IF i = 0 THEN 0
    ELSE IF a[i] + b[i] + CarryOut(a, b, i - 1) > 255 THEN 1 ELSE 0

\* a + b = c as integers below 2^256
AddsUpTo(a, b, c) ==
    /\ \A i \in 1..WordBytes : c[i] = (a[i] + b[i] + CarryOut(a, b, i - 1)) % 256
    /\ CarryOut(a, b, WordBytes) = 0

\* C23: negate_g1 returns the point at infinity (0, 0) as it is and for every
\* other point (x, y) the point (x, q - y), with q the base-field modulus
\* 21888242871839275222246405745257275088696311157297823662689037894645226208583;
\* x is never changed.
C23_NegateG1 ==
    CodecAt("negate_g1", 1) =>
        /\ ~returned[1].panic
        /\ returned[1].point.x = job.p.x
        /\ IF U256_is_zero(job.p.x) /\ U256_is_zero(job.p.y)
           THEN returned[1].point.y = job.p.y
           ELSE /\ U256_from_dec_str(BaseModulusStr).val = field_modulus
                /\ AddsUpTo(returned[1].point.y, job.p.y, field_modulus)

\* negate_g1 does so on the points whose y is at most q
NegateG1UpToModulus ==
    CodecAt("negate_g1", 1) /\ ~overflowing_sub(field_modulus, job.p.y).overflow =>
        C23_NegateG1

\* ------------------------------------------------------------------------
\* The scalar field Fr of poseidon.rs.  An Fr is held as the 32 bytes of its
\* four u64 limbs, least significant byte first (limb i of the code is bytes
\* 8i+1 .. 8i+8); a u64 as 8 bytes, a u128 as 16.  The loops over the limbs
\* are carried out on the bytes, where the products stay within the integers
\* of TLC; the carries between limbs are the carries between their bytes.
\* ------------------------------------------------------------------------
LimbBytes == 8

Zero64 == <<0, 0, 0, 0, 0, 0, 0, 0>>

\* a u64 below 2^24
U64(n) == <<n % 256, (n \div 256) % 256, (n \div 65536) % 256, 0, 0, 0, 0, 0>>

\* limbs[i - 1]
limb(a, i) == SubSeq(a, LimbBytes * (i - 1) + 1, LimbBytes * i)

\* MODULUS: the scalar-field modulus r
MODULUS ==
    <<1, 0, 0, 240, 147, 245, 225, 67,
      145, 112, 185, 121, 72, 232, 51, 40,
      93, 88, 129, 129, 182, 69, 80, 184,
      41, 160, 49, 225, 114, 78, 100, 48>>

\* R = 2^256 mod r
R ==
    <<251, 255, 255, 79, 28, 52, 150, 172,
      41, 205, 96, 159, 149, 118, 252, 54,
      46, 70, 121, 120, 111, 163, 110, 102,
      47, 223, 7, 154, 193, 119, 10, 14>>

\* R2 = R^2 mod r
R2 ==
    <<167, 109, 33, 174, 69, 230, 184, 27,
      227, 89, 92, 227, 177, 58, 254, 83,
      133, 128, 187, 83, 61, 131, 73, 140,
      165, 68, 78, 127, 177, 208, 22, 2>>

\* P_PRIME = -r^(-1) mod 2^64
P_PRIME == <<255, 255, 255, 239, 147, 245, 225, 194>>

Fr_ZERO == Zero64 \o Zero64 \o Zero64 \o Zero64

from_u64(n) == n \o Zero64 \o Zero64 \o Zero64

Fr_ONE == from_u64(U64(1))

Fr_is_zero(a) == a = Fr_ZERO

\* carries pushed through columns of byte sums, two columns at a time, for
\* the column pairs lo..hi: st holds the bytes so far and the carry
RECURSIVE ripple_pairs(_, _, _, _)
ripple_pairs(cols, st, lo, hi) ==
    IF lo = hi
    THEN Bind(cols[2 * lo - 1] + 256 * cols[2 * lo] + st[2],
              LAMBDA s : <<st[1] \o <<s % 256, (s \div 256) % 256>>, s \div 65536>>)
    ELSE Bind(ripple_pairs(cols, st, lo, (lo + hi) \div 2),
              LAMBDA m : ripple_pairs(cols, m, (lo + hi) \div 2 + 1, hi))

\* the bytes of the value the columns add up to
ripple(cols) == ripple_pairs(cols, <<<<>>, 0>>, 1, Len(cols) \div 2)[1]

\* borrows pushed through columns of byte differences in the same way
RECURSIVE borrow_pairs(_, _, _, _)
borrow_pairs(cols, st, lo, hi) ==
    IF lo = hi
    THEN Bind(cols[2 * lo - 1] + 256 * cols[2 * lo] - st[2], LAMBDA s :
         Bind(IF s < 0 THEN s + 65536 ELSE s, LAMBDA d :
              <<st[1] \o <<d % 256, d \div 256>>, IF s < 0 THEN 1 ELSE 0>>))
    ELSE Bind(borrow_pairs(cols, st, lo, (lo + hi) \div 2),
              LAMBDA m : borrow_pairs(cols, m, (lo + hi) \div 2 + 1, hi))

\* the bytes of the difference modulo 256^Len(cols), and the borrow out
borrow_ripple(cols) ==
    Bind(borrow_pairs(cols, <<<<>>, 0>>, 1, Len(cols) \div 2),
         LAMBDA st : [limbs |-> st[1], borrow |-> st[2]])

\* for j in 0..4 { tmp = t[j] + x * y[j] + carry; t[j] = tmp as u64;
\* carry = tmp >> 64 } from carry = 0, for a u64 x: the byte columns of
\* t + x * y.  No tmp exceeds a u128, so t[0..3] and the last carry are the
\* five limbs of t + x * y.
mac_columns(t, x, y) ==
    <<t[1] + x[1] * y[1],
      t[2] + x[1] * y[2] + x[2] * y[1],
      t[3] + x[1] * y[3] + x[2] * y[2] + x[3] * y[1],
      t[4] + x[1] * y[4] + x[2] * y[3] + x[3] * y[2] + x[4] * y[1],
      t[5] + x[1] * y[5] + x[2] * y[4] + x[3] * y[3] + x[4] * y[2] + x[5] * y[1],
      t[6] + x[1] * y[6] + x[2] * y[5] + x[3] * y[4] + x[4] * y[3] + x[5] * y[2] + x[6] * y[1],
      t[7] + x[1] * y[7] + x[2] * y[6] + x[3] * y[5] + x[4] * y[4] + x[5] * y[3] + x[6] * y[2] + x[7] * y[1],
      t[8] + x[1] * y[8] + x[2] * y[7] + x[3] * y[6] + x[4] * y[5] + x[5] * y[4] + x[6] * y[3] + x[7] * y[2] + x[8] * y[1],
      t[9] + x[1] * y[9] + x[2] * y[8] + x[3] * y[7] + x[4] * y[6] + x[5] * y[5] + x[6] * y[4] + x[7] * y[3] + x[8] * y[2],
      t[10] + x[1] * y[10] + x[2] * y[9] + x[3] * y[8] + x[4] * y[7] + x[5] * y[6] + x[6] * y[5] + x[7] * y[4] + x[8] * y[3],
      t[11] + x[1] * y[11] + x[2] * y[10] + x[3] * y[9] + x[4] * y[8] + x[5] * y[7] + x[6] * y[6] + x[7] * y[5] + x[8] * y[4],
      t[12] + x[1] * y[12] + x[2] * y[11] + x[3] * y[10] + x[4] * y[9] + x[5] * y[8] + x[6] * y[7] + x[7] * y[6] + x[8] * y[5],
      t[13] + x[1] * y[13] + x[2] * y[12] + x[3] * y[11] + x[4] * y[10] + x[5] * y[9] + x[6] * y[8] + x[7] * y[7] + x[8] * y[6],
      t[14] + x[1] * y[14] + x[2] * y[13] + x[3] * y[12] + x[4] * y[11] + x[5] * y[10] + x[6] * y[9] + x[7] * y[8] + x[8] * y[7],
      t[15] + x[1] * y[15] + x[2] * y[14] + x[3] * y[13] + x[4] * y[12] + x[5] * y[11] + x[6] * y[10] + x[7] * y[9] + x[8] * y[8],
      t[16] + x[1] * y[16] + x[2] * y[15] + x[3] * y[14] + x[4] * y[13] + x[5] * y[12] + x[6] * y[11] + x[7] * y[10] + x[8] * y[9],
      t[17] + x[1] * y[17] + x[2] * y[16] + x[3] * y[15] + x[4] * y[14] + x[5] * y[13] + x[6] * y[12] + x[7] * y[11] + x[8] * y[10],
      t[18] + x[1] * y[18] + x[2] * y[17] + x[3] * y[16] + x[4] * y[15] + x[5] * y[14] + x[6] * y[13] + x[7] * y[12] + x[8] * y[11],
      t[19] + x[1] * y[19] + x[2] * y[18] + x[3] * y[17] + x[4] * y[16] + x[5] * y[15] + x[6] * y[14] + x[7] * y[13] + x[8] * y[12],
      t[20] + x[1] * y[20] + x[2] * y[19] + x[3] * y[18] + x[4] * y[17] + x[5] * y[16] + x[6] * y[15] + x[7] * y[14] + x[8] * y[13],
      t[21] + x[1] * y[21] + x[2] * y[20] + x[3] * y[19] + x[4] * y[18] + x[5] * y[17] + x[6] * y[16] + x[7] * y[15] + x[8] * y[14],
      t[22] + x[1] * y[22] + x[2] * y[21] + x[3] * y[20] + x[4] * y[19] + x[5] * y[18] + x[6] * y[17] + x[7] * y[16] + x[8] * y[15],
      t[23] + x[1] * y[23] + x[2] * y[22] + x[3] * y[21] + x[4] * y[20] + x[5] * y[19] + x[6] * y[18] + x[7] * y[17] + x[8] * y[16],
      t[24] + x[1] * y[24] + x[2] * y[23] + x[3] * y[22] + x[4] * y[21] + x[5] * y[20] + x[6] * y[19] + x[7] * y[18] + x[8] * y[17],
      t[25] + x[1] * y[25] + x[2] * y[24] + x[3] * y[23] + x[4] * y[22] + x[5] * y[21] + x[6] * y[20] + x[7] * y[19] + x[8] * y[18],
      t[26] + x[1] * y[26] + x[2] * y[25] + x[3] * y[24] + x[4] * y[23] + x[5] * y[22] + x[6] * y[21] + x[7] * y[20] + x[8] * y[19],
      t[27] + x[1] * y[27] + x[2] * y[26] + x[3] * y[25] + x[4] * y[24] + x[5] * y[23] + x[6] * y[22] + x[7] * y[21] + x[8] * y[20],
      t[28] + x[1] * y[28] + x[2] * y[27] + x[3] * y[26] + x[4] * y[25] + x[5] * y[24] + x[6] * y[23] + x[7] * y[22] + x[8] * y[21],
      t[29] + x[1] * y[29] + x[2] * y[28] + x[3] * y[27] + x[4] * y[26] + x[5] * y[25] + x[6] * y[24] + x[7] * y[23] + x[8] * y[22],
      t[30] + x[1] * y[30] + x[2] * y[29] + x[3] * y[28] + x[4] * y[27] + x[5] * y[26] + x[6] * y[25] + x[7] * y[24] + x[8] * y[23],
      t[31] + x[1] * y[31] + x[2] * y[30] + x[3] * y[29] + x[4] * y[28] + x[5] * y[27] + x[6] * y[26] + x[7] * y[25] + x[8] * y[24],
      t[32] + x[1] * y[32] + x[2] * y[31] + x[3] * y[30] + x[4] * y[29] + x[5] * y[28] + x[6] * y[27] + x[7] * y[26] + x[8] * y[25],
      x[2] * y[32] + x[3] * y[31] + x[4] * y[30] + x[5] * y[29] + x[6] * y[28] + x[7] * y[27] + x[8] * y[26],
      x[3] * y[32] + x[4] * y[31] + x[5] * y[30] + x[6] * y[29] + x[7] * y[28] + x[8] * y[27],
      x[4] * y[32] + x[5] * y[31] + x[6] * y[30] + x[7] * y[29] + x[8] * y[28],
      x[5] * y[32] + x[6] * y[31] + x[7] * y[30] + x[8] * y[29],
      x[6] * y[32] + x[7] * y[31] + x[8] * y[30],
      x[7] * y[32] + x[8] * y[31],
      x[8] * y[32],
      0>>

\* the loop of mac steps: 40 bytes, t[0..3] and then the carry
mac_loop(t, x, y) == Bind(mac_columns(t, x, y), LAMBDA cols : ripple(cols))

\* a as u128 + b as u128 for u64 a, b
wide_add(a, b) ==
    Bind([k \in 1..LimbBytes |-> a[k] + b[k]] \o <<0, 0>>,
         LAMBDA cols : ripple(cols) \o <<0, 0, 0, 0, 0, 0>>)

\* tmp as u64
low64(tmp) == SubSeq(tmp, 1, LimbBytes)

\* (tmp >> 64) as u64
high64(tmp) == SubSeq(tmp, LimbBytes + 1, 2 * LimbBytes)

\* b.wrapping_mul(c)
wrapping_mul(b, c) ==
    Bind(<<b[1] * c[1],
      b[1] * c[2] + b[2] * c[1],
      b[1] * c[3] + b[2] * c[2] + b[3] * c[1],
      b[1] * c[4] + b[2] * c[3] + b[3] * c[2] + b[4] * c[1],
      b[1] * c[5] + b[2] * c[4] + b[3] * c[3] + b[4] * c[2] + b[5] * c[1],
      b[1] * c[6] + b[2] * c[5] + b[3] * c[4] + b[4] * c[3] + b[5] * c[2] + b[6] * c[1],
      b[1] * c[7] + b[2] * c[6] + b[3] * c[5] + b[4] * c[4] + b[5] * c[3] + b[6] * c[2] + b[7] * c[1],
      b[1] * c[8] + b[2] * c[7] + b[3] * c[6] + b[4] * c[5] + b[5] * c[4] + b[6] * c[3] + b[7] * c[2] + b[8] * c[1]>>,
         LAMBDA cols : SubSeq(ripple(cols), 1, LimbBytes))

\* a > b and a < b for u64
limb_gt(a, b) ==
    \E k \in 1..LimbBytes : a[k] > b[k] /\ \A j \in (k + 1)..LimbBytes : a[j] = b[j]

limb_lt(a, b) == limb_gt(b, a)

\* ct_select: a if choice, else b (the mask is all ones or all zeros)
ct_select(choice, a, b) == IF choice THEN a ELSE b

\* ct_gte: the limbs are compared from the most significant down; state is
\* 0 while they are equal, then 1 or -1
RECURSIVE ct_gte_loop(_, _, _, _)
ct_gte_loop(a, b, i, state) ==
    IF i = 0 THEN state
    ELSE LET is_greater == IF limb_gt(limb(a, i), limb(b, i)) THEN 1 ELSE 0
             is_less == IF limb_lt(limb(a, i), limb(b, i)) THEN 1 ELSE 0
             still_equal == IF state = 0 THEN 1 ELSE 0
         IN  ct_gte_loop(a, b, i - 1, state + still_equal * (is_greater - is_less))

ct_gte(a, b) == ct_gte_loop(a, b, 4, 0) >= 0

\* the loop of add, add_modulus and add_with_carry_256: the limbs of a + b
\* and the carry out
add_with_carry_256(a, b) ==
    Bind([k \in 1..WordBytes |-> a[k] + b[k]] \o <<0, 0>>, LAMBDA cols :
    Bind(ripple(cols), LAMBDA sum :
         [limbs |-> SubSeq(sum, 1, WordBytes), carry |-> sum[WordBytes + 1]]))

\* the loop of sub, sub_internal and sub_modulus: the limbs of a - b modulo
\* 2^256
sub_internal(a, b) ==
    Bind([k \in 1..WordBytes |-> a[k] - b[k]] \o <<>>, LAMBDA cols :
         borrow_ripple(cols).limbs)

gte_modulus(a) == ct_gte(a, MODULUS)

gte(a, b) == ct_gte(a, b)

sub_modulus(a) == sub_internal(a, MODULUS)

add_modulus(a) == add_with_carry_256(a, MODULUS).limbs

\* Fr::add reducing only when the sum leaves 256 bits
Fr_add_on_carry_only(a, b) ==
    Bind(add_with_carry_256(a, b), LAMBDA r :
         ct_select(r.carry > 0, sub_modulus(r.limbs), r.limbs))

\* Fr::add
Fr_add(a, b) ==
    Bind(add_with_carry_256(a, b), LAMBDA r :
         LET reduced == sub_modulus(r.limbs)
             needs_reduction == r.carry > 0 \/ ct_gte(r.limbs, MODULUS)
         IN  ct_select(needs_reduction, reduced, r.limbs))

\* Fr::sub
Fr_sub(a, b) ==
    LET result_direct == sub_internal(a, b)
        with_mod == add_modulus(a)
        result_with_mod == sub_internal(with_mod, b)
        use_direct == ct_gte(a, b)
    IN  ct_select(use_direct, result_direct, result_with_mod)

\* one round of the outer loop of mul on t[0..4] (40 bytes), for the limb x
\* of self: t += x * other; m = t[0] * P_PRIME; t = (t + m * MODULUS) >> 64
cios_round(t, x, other) ==
    Bind(mac_loop(SubSeq(t, 1, WordBytes), x, other), LAMBDA p :
    Bind(low64(wide_add(limb(t, 5), limb(p, 5))), LAMBDA t4 :
    Bind(wrapping_mul(limb(p, 1), P_PRIME), LAMBDA m :
    Bind(mac_loop(SubSeq(p, 1, WordBytes), m, MODULUS), LAMBDA q :
         SubSeq(q, LimbBytes + 1, WordBytes) \o wide_add(t4, limb(q, 5))))))

\* the outer loop of mul: t after the rounds for the limbs i..3 of self
RECURSIVE cios_rounds(_, _, _, _)
cios_rounds(t, a, other, i) ==
    IF i > 4 THEN t
    ELSE Bind(cios_round(t, limb(a, i), other), LAMBDA t1 : cios_rounds(t1, a, other, i + 1))

\* a pass of mul that leaves out the conditional subtraction
montgomery_pass_unreduced(a, other) ==
    SubSeq(cios_rounds(Fr_ZERO \o Zero64, a, other, 1), 1, WordBytes)

\* a pass of mul: the CIOS loop from t = 0, then the conditional subtraction
montgomery_pass(a, other) ==
    Bind(cios_rounds(Fr_ZERO \o Zero64, a, other, 1), LAMBDA t :
    Bind(SubSeq(t, 1, WordBytes), LAMBDA montgomery_result :
         LET reduced == sub_modulus(montgomery_result)
             needs_reduction == gte_modulus(montgomery_result) \/ limb(t, 5) # Zero64
         IN  ct_select(needs_reduction, reduced, montgomery_result)))

\* Fr::mul: the pass on self and other, then the pass on its result and R2
Fr_mul(a, other) ==
    Bind(montgomery_pass(a, other), LAMBDA result : montgomery_pass(result, R2))

\* Fr::pow5
pow5(x) ==
    Bind(Fr_mul(x, x), LAMBDA x2 :
    Bind(Fr_mul(x2, x2), LAMBDA x4 : Fr_mul(x4, x)))

\* one round of the loop of Fr::from_str on the character c: result * 10 +
\* digit for a decimal digit, the result as it is for any other character
from_str_round(result, c) ==
    IF c \in DOMAIN DigitValue
    THEN Bind(Fr_mul(result, from_u64(U64(10))),
              LAMBDA m : Fr_add(m, from_u64(U64(DigitValue[c]))))
    ELSE result

\* the rounds for the characters lo..hi in order: those of the first half,
\* then those of the second on their result
RECURSIVE from_str_rounds(_, _, _, _)
from_str_rounds(result, s, lo, hi) ==
    IF lo = hi THEN from_str_round(result, s[lo])
    ELSE Bind(from_str_rounds(result, s, lo, (lo + hi) \div 2),
              LAMBDA m : from_str_rounds(m, s, (lo + hi) \div 2 + 1, hi))

\* Fr::from_str
Fr_from_str(s) ==
    IF s = <<>> \/ s = <<"0">> THEN Fr_ZERO
    ELSE from_str_rounds(Fr_ZERO, s, 1, Len(s))

\* K of reduce_512_bit: 2^256 mod r
K ==
    <<251, 255, 255, 79, 28, 52, 150, 172,
      41, 205, 96, 159, 149, 118, 252, 54,
      46, 70, 121, 120, 111, 163, 110, 102,
      47, 223, 7, 154, 193, 119, 10, 14>>

\* the iterations of the folding loop of reduce_512_bit
FoldIterations == 64

\* the byte columns of a + b
add_columns(a, b) == [k \in 1..Len(a) |-> a[k] + b[k]] \o <<>>

\* acc_hi * K of reduce_512_bit (eight limbs): row i adds acc[4 + i] * K to
\* product[i..i + 3] and leaves its carry in product[i + 4]
hi_times_k(acc_hi) ==
    Bind(mac_loop(Fr_ZERO, limb(acc_hi, 1), K), LAMBDA row0 :
    Bind(mac_loop(SubSeq(row0, LimbBytes + 1, WordBytes + LimbBytes), limb(acc_hi, 2), K), LAMBDA row1 :
    Bind(mac_loop(SubSeq(row1, LimbBytes + 1, WordBytes + LimbBytes), limb(acc_hi, 3), K), LAMBDA row2 :
    Bind(mac_loop(SubSeq(row2, LimbBytes + 1, WordBytes + LimbBytes), limb(acc_hi, 4), K), LAMBDA row3 :
         limb(row0, 1) \o limb(row1, 1) \o limb(row2, 1) \o row3))))

\* one iteration of the loop of reduce_512_bit on acc (eight limbs): acc as
\* it is when acc[4..7] is zero (the break), else acc_lo + acc_hi * K on
\* eight limbs, the carry out of the last one dropped
fold_iteration(acc) ==
    IF SubSeq(acc, WordBytes + 1, 2 * WordBytes) = Fr_ZERO THEN acc
    ELSE Bind(hi_times_k(SubSeq(acc, WordBytes + 1, 2 * WordBytes)), LAMBDA product :
         Bind(SubSeq(acc, 1, WordBytes) \o Fr_ZERO, LAMBDA acc_lo :
              ripple(add_columns(acc_lo, product))))

\* n iterations of the loop, the first half of them then the second
RECURSIVE fold_iterations(_, _)
fold_iterations(acc, n) ==
    IF n = 1 THEN fold_iteration(acc)
    ELSE Bind(fold_iterations(acc, n \div 2), LAMBDA m : fold_iterations(m, n - n \div 2))

\* one round of the final loop of reduce_512_bit
conditional_subtraction(result) ==
    ct_select(gte_modulus(result), sub_modulus(result), result)

\* Fr::reduce_512_bit
reduce_512_bit(t) ==
    Bind(SubSeq(fold_iterations(t, FoldIterations), 1, WordBytes), LAMBDA result :
         conditional_subtraction(conditional_subtraction(conditional_subtraction(result))))

\* ------------------------------------------------------------------------
\* Calls of the field arithmetic (poseidon.rs impl Fr), one per behaviour
\* ------------------------------------------------------------------------
\* r - 1
RMinusOne ==
    <<0, 0, 0, 240, 147, 245, 225, 67,
      145, 112, 185, 121, 72, 232, 51, 40,
      93, 88, 129, 129, 182, 69, 80, 184,
      41, 160, 49, 225, 114, 78, 100, 48>>

\* r - 2
RMinusTwo ==
    <<255, 255, 255, 239, 147, 245, 225, 67,
      145, 112, 185, 121, 72, 232, 51, 40,
      93, 88, 129, 129, 182, 69, 80, 184,
      41, 160, 49, 225, 114, 78, 100, 48>>

\* (r - 1) / 2
ROverTwo ==
    <<0, 0, 0, 248, 201, 250, 240, 161,
      72, 184, 220, 60, 36, 244, 25, 148,
      46, 172, 192, 64, 219, 34, 40, 220,
      20, 208, 152, 112, 57, 39, 50, 24>>

\* (r + 1) / 2
ROverTwoUp ==
    <<1, 0, 0, 248, 201, 250, 240, 161,
      72, 184, 220, 60, 36, 244, 25, 148,
      46, 172, 192, 64, 219, 34, 40, 220,
      20, 208, 152, 112, 57, 39, 50, 24>>

\* a value with no zero byte
FrX ==
    <<9, 248, 231, 214, 197, 180, 163, 146,
      129, 112, 111, 94, 77, 60, 43, 26,
      9, 248, 231, 214, 197, 180, 163, 146,
      129, 112, 111, 94, 77, 60, 43, 26>>

\* r - FrX
FrNegX ==
    <<248, 7, 24, 25, 206, 64, 62, 177,
      15, 0, 74, 27, 251, 171, 8, 14,
      84, 96, 153, 170, 240, 144, 172, 37,
      168, 47, 194, 130, 37, 18, 57, 22>>

\* another value of 254 bits
FrY ==
    <<0, 17, 34, 51, 68, 85, 102, 119,
      136, 153, 170, 187, 204, 221, 238, 255,
      0, 17, 34, 51, 68, 85, 102, 119,
      104, 89, 74, 59, 44, 29, 14, 47>>

\* 2^64: limb 1 is 1
TwoTo64 ==
    <<0, 0, 0, 0, 0, 0, 0, 0,
      1, 0, 0, 0, 0, 0, 0, 0,
      0, 0, 0, 0, 0, 0, 0, 0,
      0, 0, 0, 0, 0, 0, 0, 0>>

\* 2^64 - 1: limb 0 full
LimbMax ==
    <<255, 255, 255, 255, 255, 255, 255, 255,
      0, 0, 0, 0, 0, 0, 0, 0,
      0, 0, 0, 0, 0, 0, 0, 0,
      0, 0, 0, 0, 0, 0, 0, 0>>

\* 2^253
TwoTo253 ==
    <<0, 0, 0, 0, 0, 0, 0, 0,
      0, 0, 0, 0, 0, 0, 0, 0,
      0, 0, 0, 0, 0, 0, 0, 0,
      0, 0, 0, 0, 0, 0, 0, 32>>

\* 0 on eight limbs
WideZero ==
    <<0, 0, 0, 0, 0, 0, 0, 0,
      0, 0, 0, 0, 0, 0, 0, 0,
      0, 0, 0, 0, 0, 0, 0, 0,
      0, 0, 0, 0, 0, 0, 0, 0,
      0, 0, 0, 0, 0, 0, 0, 0,
      0, 0, 0, 0, 0, 0, 0, 0,
      0, 0, 0, 0, 0, 0, 0, 0,
      0, 0, 0, 0, 0, 0, 0, 0>>

\* r - 1 on eight limbs
WideRMinusOne ==
    <<0, 0, 0, 240, 147, 245, 225, 67,
      145, 112, 185, 121, 72, 232, 51, 40,
      93, 88, 129, 129, 182, 69, 80, 184,
      41, 160, 49, 225, 114, 78, 100, 48,
      0, 0, 0, 0, 0, 0, 0, 0,
      0, 0, 0, 0, 0, 0, 0, 0,
      0, 0, 0, 0, 0, 0, 0, 0,
      0, 0, 0, 0, 0, 0, 0, 0>>

\* r on eight limbs
WideR ==
    <<1, 0, 0, 240, 147, 245, 225, 67,
      145, 112, 185, 121, 72, 232, 51, 40,
      93, 88, 129, 129, 182, 69, 80, 184,
      41, 160, 49, 225, 114, 78, 100, 48,
      0, 0, 0, 0, 0, 0, 0, 0,
      0, 0, 0, 0, 0, 0, 0, 0,
      0, 0, 0, 0, 0, 0, 0, 0,
      0, 0, 0, 0, 0, 0, 0, 0>>

\* 4r - 1: the greatest value below 2^256 that three subtractions of r make canonical
WideFourRMinusOne ==
    <<3, 0, 0, 192, 79, 214, 135, 15,
      69, 194, 229, 230, 33, 161, 207, 160,
      116, 97, 5, 6, 218, 22, 65, 225,
      166, 128, 198, 132, 203, 57, 145, 193,
      0, 0, 0, 0, 0, 0, 0, 0,
      0, 0, 0, 0, 0, 0, 0, 0,
      0, 0, 0, 0, 0, 0, 0, 0,
      0, 0, 0, 0, 0, 0, 0, 0>>

\* 4r
WideFourR ==
    <<4, 0, 0, 192, 79, 214, 135, 15,
      69, 194, 229, 230, 33, 161, 207, 160,
      116, 97, 5, 6, 218, 22, 65, 225,
      166, 128, 198, 132, 203, 57, 145, 193,
      0, 0, 0, 0, 0, 0, 0, 0,
      0, 0, 0, 0, 0, 0, 0, 0,
      0, 0, 0, 0, 0, 0, 0, 0,
      0, 0, 0, 0, 0, 0, 0, 0>>

\* 2^256 - 1: the low four limbs full, the high four zero
WideLowFull ==
    <<255, 255, 255, 255, 255, 255, 255, 255,
      255, 255, 255, 255, 255, 255, 255, 255,
      255, 255, 255, 255, 255, 255, 255, 255,
      255, 255, 255, 255, 255, 255, 255, 255,
      0, 0, 0, 0, 0, 0, 0, 0,
      0, 0, 0, 0, 0, 0, 0, 0,
      0, 0, 0, 0, 0, 0, 0, 0,
      0, 0, 0, 0, 0, 0, 0, 0>>

\* 2^256
WideTwoTo256 ==
    <<0, 0, 0, 0, 0, 0, 0, 0,
      0, 0, 0, 0, 0, 0, 0, 0,
      0, 0, 0, 0, 0, 0, 0, 0,
      0, 0, 0, 0, 0, 0, 0, 0,
      1, 0, 0, 0, 0, 0, 0, 0,
      0, 0, 0, 0, 0, 0, 0, 0,
      0, 0, 0, 0, 0, 0, 0, 0,
      0, 0, 0, 0, 0, 0, 0, 0>>

\* (r - 1)^2: the greatest product of two field elements
WideSquare ==
    <<0, 0, 0, 0, 0, 0, 0, 129,
      221, 94, 64, 233, 146, 145, 138, 119,
      197, 10, 199, 101, 191, 26, 73, 143,
      93, 157, 190, 37, 144, 124, 5, 70,
      231, 47, 182, 71, 123, 82, 119, 44,
      223, 211, 121, 211, 176, 59, 247, 133,
      28, 210, 72, 3, 124, 111, 154, 89,
      156, 191, 60, 118, 184, 196, 37, 9>>

\* FrX * FrY as integers
WideXY ==
    <<0, 153, 170, 35, 226, 195, 166, 104,
      231, 0, 147, 139, 201, 42, 141, 206,
      60, 76, 230, 8, 147, 98, 85, 73,
      252, 106, 117, 26, 108, 106, 21, 29,
      131, 159, 55, 169, 23, 165, 115, 165,
      92, 187, 198, 122, 13, 161, 87, 83,
      70, 236, 251, 195, 102, 6, 197, 196,
      71, 81, 228, 235, 106, 97, 207, 4>>

\* 2^504
WideTwoTo504 ==
    <<0, 0, 0, 0, 0, 0, 0, 0,
      0, 0, 0, 0, 0, 0, 0, 0,
      0, 0, 0, 0, 0, 0, 0, 0,
      0, 0, 0, 0, 0, 0, 0, 0,
      0, 0, 0, 0, 0, 0, 0, 0,
      0, 0, 0, 0, 0, 0, 0, 0,
      0, 0, 0, 0, 0, 0, 0, 0,
      0, 0, 0, 0, 0, 0, 0, 1>>

\* the high four limbs full, the low four zero
WideHighFull ==
    <<0, 0, 0, 0, 0, 0, 0, 0,
      0, 0, 0, 0, 0, 0, 0, 0,
      0, 0, 0, 0, 0, 0, 0, 0,
      0, 0, 0, 0, 0, 0, 0, 0,
      255, 255, 255, 255, 255, 255, 255, 255,
      255, 255, 255, 255, 255, 255, 255, 255,
      255, 255, 255, 255, 255, 255, 255, 255,
      255, 255, 255, 255, 255, 255, 255, 255>>

\* 2^512 - 1
WideFull ==
    <<255, 255, 255, 255, 255, 255, 255, 255,
      255, 255, 255, 255, 255, 255, 255, 255,
      255, 255, 255, 255, 255, 255, 255, 255,
      255, 255, 255, 255, 255, 255, 255, 255,
      255, 255, 255, 255, 255, 255, 255, 255,
      255, 255, 255, 255, 255, 255, 255, 255,
      255, 255, 255, 255, 255, 255, 255, 255,
      255, 255, 255, 255, 255, 255, 255, 255>>

\* r in decimal (77 digits): the least value that is not a field element
ModulusStr ==
    <<"2", "1", "8", "8", "8", "2", "4", "2", "8", "7", "1", "8", "3",
      "9", "2", "7", "5", "2", "2", "2", "2", "4", "6", "4", "0", "5",
      "7", "4", "5", "2", "5", "7", "2", "7", "5", "0", "8", "8", "5",
      "4", "8", "3", "6", "4", "4", "0", "0", "4", "1", "6", "0", "3",
      "4", "3", "4", "3", "6", "9", "8", "2", "0", "4", "1", "8", "6",
      "5", "7", "5", "8", "0", "8", "4", "9", "5", "6", "1", "7">>

\* r + 1 in decimal
ModulusPlusOneStr ==
    <<"2", "1", "8", "8", "8", "2", "4", "2", "8", "7", "1", "8", "3",
      "9", "2", "7", "5", "2", "2", "2", "2", "4", "6", "4", "0", "5",
      "7", "4", "5", "2", "5", "7", "2", "7", "5", "0", "8", "8", "5",
      "4", "8", "3", "6", "4", "4", "0", "0", "4", "1", "6", "0", "3",
      "4", "3", "4", "3", "6", "9", "8", "2", "0", "4", "1", "8", "6",
      "5", "7", "5", "8", "0", "8", "4", "9", "5", "6", "1", "8">>

\* r - 1 in decimal: the greatest field element
RMinusOneStr ==
    <<"2", "1", "8", "8", "8", "2", "4", "2", "8", "7", "1", "8", "3",
      "9", "2", "7", "5", "2", "2", "2", "2", "4", "6", "4", "0", "5",
      "7", "4", "5", "2", "5", "7", "2", "7", "5", "0", "8", "8", "5",
      "4", "8", "3", "6", "4", "4", "0", "0", "4", "1", "6", "0", "3",
      "4", "3", "4", "3", "6", "9", "8", "2", "0", "4", "1", "8", "6",
      "5", "7", "5", "8", "0", "8", "4", "9", "5", "6", "1", "6">>

\* operands of add and sub: canonical values at the ends of the range, around
\* r / 2, at limb boundaries, and a value with its complement
FrWords ==
    {Fr_ZERO, Fr_ONE, from_u64(U64(2)), RMinusOne, RMinusTwo, ROverTwo, ROverTwoUp,
     FrX, FrNegX, FrY, TwoTo64, LimbMax, TwoTo253}

\* operands of mul and pow5: small values, the ends of the range and values
\* of 254 bits
MulWords ==
    {Fr_ZERO, Fr_ONE, from_u64(U64(3)), from_u64(U64(1000)), from_u64(U64(2000)),
     RMinusOne, ROverTwoUp, FrX, FrY, LimbMax, TwoTo253}

\* arguments of from_str: decimal strings of field elements, strings of
\* digits that denote r or more (r, r + 1, 2^256), and strings with a
\* character that is not a digit
FrStrings ==
    {<<"0">>, <<"7">>, <<"1", "2", "3", "4", "5">>, RMinusOneStr,
     ModulusStr, ModulusPlusOneStr, TooBig,
     <<"1", "x">>, <<"-", "1">>, <<"a", "b", "c">>, <<"1", "2", " ", "3">>, <<"0", "x", "1", "0">>}

\* arguments of reduce_512_bit: values of 512 bits on eight limbs
WideWords ==
    {WideZero, WideRMinusOne, WideR, WideFourRMinusOne, WideFourR, WideLowFull,
     WideTwoTo256, WideSquare, WideXY, WideTwoTo504, WideHighFull, WideFull}

FrJobs ==
    {[fn |-> f, a |-> a, b |-> b] : f \in {"Fr::add", "Fr::sub"}, a \in FrWords, b \in FrWords}
        \cup {[fn |-> "Fr::mul", a |-> a, b |-> b] : a \in MulWords, b \in MulWords}
        \cup {[fn |-> "Fr::pow5", a |-> a] : a \in MulWords}
        \cup {[fn |-> "Fr::from_str", s |-> s] : s \in FrStrings}
        \cup {[fn |-> "Fr::reduce_512_bit", t |-> t] : t \in WideWords}

InitFr ==
    /\ job \in FrJobs
    /\ returned = <<>>
    /\ key_json = <<>>
    /\ vk = <<>>
    /\ call = <<>>
    /\ ret = "none"
    /\ calls = <<>>
    /\ vk_x = <<>>
    /\ TemplatesIdle

\* Fr::add
Add ==
    /\ job.fn = "Fr::add"
    /\ returned = <<>>
    /\ \E c \in {Fr_add(job.a, job.b)} : returned' = <<c>>
    /\ UNCHANGED <<job, key_json, vk, call, ret, calls, vk_x, cvars, mvars, hvars, pvars>>

\* Fr::sub
Sub ==
    /\ job.fn = "Fr::sub"
    /\ returned = <<>>
    /\ \E c \in {Fr_sub(job.a, job.b)} : returned' = <<c>>
    /\ UNCHANGED <<job, key_json, vk, call, ret, calls, vk_x, cvars, mvars, hvars, pvars>>

\* Fr::mul
Mul ==
    /\ job.fn = "Fr::mul"
    /\ returned = <<>>
    /\ \E c \in {Fr_mul(job.a, job.b)} : returned' = <<c>>
    /\ UNCHANGED <<job, key_json, vk, call, ret, calls, vk_x, cvars, mvars, hvars, pvars>>

\* Fr::pow5
Pow5 ==
    /\ job.fn = "Fr::pow5"
    /\ returned = <<>>
    /\ \E c \in {pow5(job.a)} : returned' = <<c>>
    /\ UNCHANGED <<job, key_json, vk, call, ret, calls, vk_x, cvars, mvars, hvars, pvars>>

\* Fr::from_str
FromStr ==
    /\ job.fn = "Fr::from_str"
    /\ returned = <<>>
    /\ \E c \in {Fr_from_str(job.s)} : returned' = <<c>>
    /\ UNCHANGED <<job, key_json, vk, call, ret, calls, vk_x, cvars, mvars, hvars, pvars>>

\* Fr::reduce_512_bit
Reduce512 ==
    /\ job.fn = "Fr::reduce_512_bit"
    /\ returned = <<>>
    /\ \E c \in {reduce_512_bit(job.t)} : returned' = <<c>>
    /\ UNCHANGED <<job, key_json, vk, call, ret, calls, vk_x, cvars, mvars, hvars, pvars>>

NextFr ==
    \/ Add
    \/ Sub
    \/ Mul
    \/ Pow5
    \/ FromStr
    \/ Reduce512

SpecFr == InitFr /\ [][NextFr]_vars

\* ------------------------------------------------------------------------
\* Arithmetic modulo r on the integers the bytes write, for the properties
\* ------------------------------------------------------------------------
\* a < b as integers
Below(a, b) == \E k \in 1..Len(a) : a[k] < b[k] /\ \A j \in (k + 1)..Len(a) : a[j] = b[j]

\* the bytes of a + b, one byte more than a has
RECURSIVE IntSum(_, _, _, _, _)
IntSum(a, b, i, c, acc) ==
    IF i > Len(a) THEN Append(acc, c)
    ELSE IntSum(a, b, i + 1, (a[i] + b[i] + c) \div 256, Append(acc, (a[i] + b[i] + c) % 256))

\* the bytes of a - b for a >= b
RECURSIVE IntDiff(_, _, _, _, _)
IntDiff(a, b, i, c, acc) ==
    IF i > Len(a) THEN acc
    ELSE IntDiff(a, b, i + 1, IF a[i] - b[i] - c < 0 THEN 1 ELSE 0,
                 Append(acc, (a[i] - b[i] - c + 256) % 256))

Plus(a, b) == IntSum(a, b, 1, 0, <<>>)

Minus(a, b) == IntDiff(a, b, 1, 0, <<>>)

\* r with a zero byte on top, to compare with sums
ModulusWide == Append(MODULUS, 0)

\* a is canonical: below r
Canonical(a) == Len(a) = WordBytes /\ Below(a, MODULUS)

\* (a + b) mod r for a, b below r
ModAdd(a, b) ==
    LET s == Plus(a, b)
    IN  SubSeq(IF Below(s, ModulusWide) THEN s ELSE Minus(s, ModulusWide), 1, WordBytes)

\* (a - b) mod r for a, b below r
ModSub(a, b) ==
    IF Below(a, b) THEN SubSeq(Minus(Plus(a, MODULUS), Append(b, 0)), 1, WordBytes)
    ELSE Minus(a, b)

\* the Fr call under way is of function f and has returned
FrDone(f) == job # <<>> /\ job.fn = f /\ Len(returned) = 1

\* C24: for canonical a and b, Fr::add returns (a + b) mod r and Fr::sub
\* returns (a - b) mod r, both in [0, r); so (r - 1) + 1 = 0, 0 - 1 = r - 1
\* and x + (r - x) = 0.
C24_AddSubModR ==
    /\ FrDone("Fr::add") =>
           /\ Canonical(returned[1])
           /\ returned[1] = ModAdd(job.a, job.b)
           /\ job.a = RMinusOne /\ job.b = Fr_ONE => returned[1] = Fr_ZERO
           /\ job.a = FrX /\ job.b = FrNegX => returned[1] = Fr_ZERO
    /\ FrDone("Fr::sub") =>
           /\ Canonical(returned[1])
           /\ returned[1] = ModSub(job.a, job.b)
           /\ job.a = Fr_ZERO /\ job.b = Fr_ONE => returned[1] = RMinusOne

\* a sum that wraps past r has been returned: (r - 1) + (r - 1) = r - 2
C24_Witness ==
    /\ FrDone("Fr::add")
    /\ job.a = RMinusOne
    /\ job.b = RMinusOne
    /\ returned[1] = RMinusTwo

\* bit n of a, bit 0 the least significant
BitOf(a, n) == (a[n \div 8 + 1] \div 2 ^ (n % 8)) % 2

\* double and add over the bits hi..lo of b counted from the top: acc after
\* acc <- 2 * acc + bit * a (mod r) for each of them
RECURSIVE MulBits(_, _, _, _, _)
MulBits(a, b, acc, lo, hi) ==
    IF lo = hi
    THEN Bind(ModAdd(acc, acc), LAMBDA d :
              IF BitOf(b, 8 * WordBytes - lo) = 1 THEN ModAdd(d, a) ELSE d)
    ELSE Bind(MulBits(a, b, acc, lo, (lo + hi) \div 2), LAMBDA m :
              MulBits(a, b, m, (lo + hi) \div 2 + 1, hi))

\* a * b mod r for a, b below r, by additions only
ModMul(a, b) == MulBits(a, b, Fr_ZERO, 1, 8 * WordBytes)

\* x^5 mod r by additions only
ModPow5(x) ==
    Bind(ModMul(x, x), LAMBDA x2 :
    Bind(ModMul(x2, x), LAMBDA x3 :
    Bind(ModMul(x3, x), LAMBDA x4 : ModMul(x4, x))))

\* C25: for canonical a and b, Fr::mul returns a * b mod r in [0, r), and
\* pow5 returns x^5 mod r; so 1000 * 2000 = 2000000 and 3^5 = 243.
C25_MulModR ==
    /\ FrDone("Fr::mul") =>
           /\ Canonical(returned[1])
           /\ returned[1] = ModMul(job.a, job.b)
           /\ job.a = from_u64(U64(1000)) /\ job.b = from_u64(U64(2000))
                  => returned[1] = from_u64(U64(2000000))
    /\ FrDone("Fr::pow5") =>
           /\ Canonical(returned[1])
           /\ returned[1] = ModPow5(job.a)
           /\ job.a = from_u64(U64(3)) => returned[1] = from_u64(U64(243))

\* a product far above r has been reduced: (r - 1) * (r - 1) = 1
C25_Witness ==
    /\ FrDone("Fr::mul")
    /\ job.a = RMinusOne
    /\ job.b = RMinusOne
    /\ returned[1] = Fr_ONE

\* s is the decimal string of a field element: digits only, not empty, value below r
DenotesFieldElement(s) ==
    /\ s # <<>>
    /\ AllDigits(s)
    /\ LET parsed == U256_from_dec_str(s) IN parsed.ok /\ Below(parsed.val, MODULUS)

\* what is returned is a field element (32 bytes) and not an error
IsFieldElement(v) == DOMAIN v = 1..WordBytes

\* C26: Fr::from_str rejects a string that denotes a value of r or more, or
\* that holds a character that is not a decimal digit: it returns an error
\* and no field element.
C26_IngressRejects ==
    FrDone("Fr::from_str") /\ ~DenotesFieldElement(job.s) => ~IsFieldElement(returned[1])

\* on the decimal string of a field element from_str returns that element
FromStrOfFieldElement ==
    FrDone("Fr::from_str") /\ DenotesFieldElement(job.s)
        => returned[1] = U256_from_dec_str(job.s).val

\* what from_str makes of the strings it should reject: the digits of the
\* string, without its other characters, reduced modulo r
FromStrOfInvalid ==
    FrDone("Fr::from_str") =>
        /\ job.s = ModulusStr => returned[1] = Fr_ZERO
        /\ job.s = ModulusPlusOneStr => returned[1] = Fr_ONE
        /\ job.s = <<"1", "x">> => returned[1] = Fr_ONE
        /\ job.s = <<"-", "1">> => returned[1] = Fr_ONE
        /\ job.s = <<"a", "b", "c">> => returned[1] = Fr_ZERO
        /\ job.s = <<"1", "2", " ", "3">> => returned[1] = from_u64(U64(123))
        /\ job.s = <<"0", "x", "1", "0">> => returned[1] = from_u64(U64(10))

\* 256 * a mod r for a below r: eight doublings
ModShiftByte(a) ==
    Bind(ModAdd(a, a), LAMBDA a2 : Bind(ModAdd(a2, a2), LAMBDA a4 :
    Bind(ModAdd(a4, a4), LAMBDA a8 : Bind(ModAdd(a8, a8), LAMBDA a16 :
    Bind(ModAdd(a16, a16), LAMBDA a32 : Bind(ModAdd(a32, a32), LAMBDA a64 :
    Bind(ModAdd(a64, a64), LAMBDA a128 : ModAdd(a128, a128))))))))

\* acc after acc <- 256 * acc + byte (mod r) for the bytes hi..lo of t
\* counted from the top
RECURSIVE ModBytes(_, _, _, _)
ModBytes(t, acc, lo, hi) ==
    IF lo = hi
    THEN ModAdd(ModShiftByte(acc), <<t[Len(t) + 1 - lo]>> \o SubSeq(Fr_ZERO, 2, WordBytes))
    ELSE Bind(ModBytes(t, acc, lo, (lo + hi) \div 2), LAMBDA m :
              ModBytes(t, m, (lo + hi) \div 2 + 1, hi))

\* t mod r for t of any length, by additions only
ModReduce(t) == ModBytes(t, Fr_ZERO, 1, Len(t))

\* the high four limbs of acc after the folding loop on t
HighAfterFolding(t) == SubSeq(fold_iterations(t, FoldIterations), WordBytes + 1, 2 * WordBytes)

\* C30: for every t of 512 bits, the folding loop of reduce_512_bit ends
\* with the high four limbs zero, and what reduce_512_bit returns after its
\* three conditional subtractions is t mod r, in [0, r).
C30_Reduce512 ==
    FrDone("Fr::reduce_512_bit") =>
        /\ HighAfterFolding(job.t) = Fr_ZERO
        /\ Canonical(returned[1])
        /\ returned[1] = ModReduce(job.t)

\* what holds of reduce_512_bit: the folding ends with the high limbs zero
\* and the result is congruent to t modulo r
Reduce512Congruent ==
    FrDone("Fr::reduce_512_bit") =>
        /\ HighAfterFolding(job.t) = Fr_ZERO
        /\ ModReduce(returned[1]) = ModReduce(job.t)

\* what reduce_512_bit returns for some arguments: low limbs of 4r or more
\* are left at r or more
Reduce512Values ==
    FrDone("Fr::reduce_512_bit") =>
        /\ job.t = WideRMinusOne => returned[1] = RMinusOne
        /\ job.t = WideR => returned[1] = Fr_ZERO
        /\ job.t = WideFourRMinusOne => returned[1] = RMinusOne
        /\ job.t = WideFourR => returned[1] = MODULUS
        /\ job.t = WideTwoTo256 => returned[1] = K
        /\ job.t = WideLowFull => ~Canonical(returned[1])
        /\ job.t = WideSquare => ~Canonical(returned[1])

\* ------------------------------------------------------------------------
\* The precomputed Poseidon constants (poseidon_precomputed): the round
\* constants and the MDS matrix of circomlibjs for t = 3 over the BN254
\* scalar field, as Fr values in canonical form
\* ------------------------------------------------------------------------
C_T3_FR ==
    <<<<110, 142, 205, 4, 115, 212, 33, 141, 147, 41, 187, 17, 60, 153, 196, 20, 33, 12, 244, 86, 214, 134, 89, 208, 24, 149, 154, 186, 146, 165, 233, 14>>,
      <<100, 232, 86, 9, 244, 255, 150, 86, 223, 104, 8, 208, 212, 8, 123, 136, 205, 27, 252, 105, 113, 88, 134, 89, 140, 20, 242, 53, 82, 68, 241, 0>>,
      <<245, 115, 207, 14, 137, 243, 121, 232, 108, 179, 122, 11, 115, 40, 199, 48, 185, 128, 250, 208, 88, 160, 41, 31, 158, 201, 138, 126, 72, 243, 223, 8>>,
      <<208, 1, 220, 250, 16, 99, 150, 32, 110, 218, 75, 200, 66, 83, 195, 86, 200, 19, 43, 83, 247, 40, 206, 195, 70, 238, 218, 15, 105, 190, 39, 47>>,
      <<242, 108, 161, 188, 190, 39, 131, 139, 228, 62, 4, 184, 4, 254, 99, 183, 52, 98, 79, 61, 191, 190, 22, 36, 141, 123, 139, 246, 172, 225, 42, 43>>,
      <<250, 28, 241, 219, 199, 68, 75, 230, 234, 3, 107, 171, 117, 193, 82, 89, 213, 212, 151, 111, 192, 234, 165, 204, 126, 239, 43, 7, 98, 208, 25, 3>>,
      <<109, 82, 40, 191, 135, 179, 247, 142, 41, 198, 73, 173, 39, 191, 183, 200, 59, 166, 244, 122, 248, 109, 55, 138, 130, 170, 174, 235, 202, 61, 129, 40>>,
      <<120, 203, 249, 221, 173, 40, 9, 21, 188, 82, 195, 0, 82, 134, 51, 32, 13, 212, 193, 225, 56, 191, 129, 241, 3, 201, 203, 44, 59, 103, 39, 39>>,
      <<50, 198, 92, 230, 49, 158, 251, 184, 214, 135, 5, 52, 62, 212, 251, 110, 205, 148, 20, 42, 43, 189, 74, 231, 194, 39, 119, 162, 92, 196, 78, 35>>,
      <<40, 212, 151, 135, 110, 255, 153, 205, 28, 123, 51, 10, 21, 168, 16, 171, 96, 247, 124, 207, 178, 44, 134, 127, 143, 225, 26, 3, 52, 37, 181, 21>>,
      <<246, 209, 104, 207, 238, 212, 1, 215, 50, 177, 88, 27, 141, 138, 14, 142, 227, 156, 183, 134, 209, 163, 217, 94, 95, 179, 228, 217, 214, 250, 200, 13>>,
      <<156, 77, 126, 164, 24, 85, 128, 151, 236, 31, 46, 246, 120, 179, 78, 234, 103, 181, 63, 173, 95, 112, 15, 96, 202, 251, 17, 194, 255, 149, 205, 27>>,
      <<89, 229, 157, 6, 141, 151, 203, 23, 120, 147, 120, 37, 108, 163, 109, 199, 77, 195, 111, 1, 27, 248, 239, 233, 223, 202, 33, 183, 10, 11, 82, 16>>,
      <<246, 39, 86, 31, 184, 158, 138, 232, 172, 208, 254, 117, 128, 73, 50, 41, 244, 186, 251, 213, 142, 125, 37, 155, 125, 127, 142, 155, 20, 72, 109, 31>>,
      <<5, 135, 12, 70, 181, 189, 52, 202, 201, 13, 111, 129, 28, 220, 248, 255, 155, 8, 162, 53, 239, 0, 158, 210, 20, 144, 48, 82, 246, 85, 150, 29>>,
      <<125, 204, 151, 86, 24, 212, 227, 143, 5, 50, 112, 228, 103, 255, 49, 167, 155, 169, 67, 205, 177, 247, 81, 176, 175, 188, 149, 255, 86, 90, 223, 4>>,
      <<40, 232, 75, 110, 43, 40, 236, 246, 167, 36, 132, 140, 10, 161, 144, 134, 20, 175, 237, 12, 41, 61, 27, 21, 64, 246, 255, 248, 149, 217, 114, 6>>,
      <<185, 117, 92, 155, 32, 216, 193, 159, 142, 112, 242, 6, 204, 157, 154, 12, 95, 221, 175, 255, 215, 0, 18, 178, 84, 68, 136, 20, 180, 82, 153, 9>>,
      <<166, 159, 107, 58, 132, 14, 253, 131, 145, 205, 180, 169, 134, 53, 228, 72, 148, 70, 141, 186, 67, 49, 72, 124, 12, 208, 223, 85, 34, 186, 44, 5>>,
      <<220, 77, 70, 60, 185, 124, 7, 22, 119, 173, 81, 114, 112, 85, 222, 130, 175, 153, 121, 43, 113, 116, 189, 176, 142, 219, 10, 105, 238, 173, 139, 11>>,
      <<209, 189, 178, 228, 168, 208, 99, 185, 80, 128, 58, 104, 96, 93, 193, 73, 199, 7, 12, 2, 81, 230, 30, 90, 175, 7, 51, 241, 144, 21, 155, 17>>,
      <<9, 141, 74, 251, 11, 190, 21, 206, 229, 78, 239, 132, 200, 207, 74, 44, 131, 123, 246, 224, 107, 211, 41, 37, 123, 209, 213, 214, 124, 11, 21, 3>>,
      <<101, 165, 158, 124, 49, 203, 105, 190, 138, 137, 128, 61, 184, 239, 116, 83, 53, 18, 57, 23, 31, 149, 241, 60, 110, 84, 20, 94, 44, 24, 198, 44>>,
      <<249, 240, 27, 17, 115, 205, 210, 146, 43, 78, 193, 218, 222, 202, 24, 66, 118, 179, 4, 164, 41, 225, 207, 80, 196, 120, 99, 30, 85, 50, 80, 0>>,
      <<181, 118, 130, 194, 44, 218, 249, 136, 251, 105, 192, 252, 153, 195, 105, 100, 81, 185, 188, 46, 151, 126, 20, 187, 52, 170, 155, 40, 227, 55, 50, 35>>,
      <<128, 2, 214, 36, 76, 45, 12, 232, 164, 229, 74, 179, 33, 127, 3, 35, 99, 190, 191, 116, 22, 211, 128, 201, 227, 166, 212, 235, 244, 244, 200, 5>>,
      <<91, 198, 15, 89, 178, 9, 31, 238, 145, 237, 174, 243, 94, 243, 188, 82, 82, 242, 25, 163, 24, 216, 5, 186, 150, 211, 66, 48, 177, 29, 123, 10>>,
      <<192, 78, 64, 90, 54, 66, 245, 93, 220, 71, 255, 134, 176, 226, 86, 241, 219, 50, 157, 44, 87, 150, 66, 177, 245, 12, 33, 155, 31, 183, 115, 42>>,
      <<96, 196, 80, 92, 187, 96, 167, 118, 41, 242, 231, 219, 196, 242, 24, 236, 195, 29, 201, 255, 233, 7, 81, 147, 161, 201, 188, 122, 65, 176, 201, 26>>,
      <<192, 63, 201, 109, 4, 238, 21, 144, 52, 4, 177, 108, 77, 62, 159, 38, 121, 244, 126, 112, 118, 176, 171, 63, 130, 116, 131, 224, 154, 51, 192, 18>>,
      <<142, 162, 233, 86, 46, 104, 70, 130, 198, 170, 59, 37, 163, 10, 144, 82, 79, 112, 30, 78, 219, 24, 91, 127, 173, 101, 161, 2, 177, 117, 116, 11>>,
      <<72, 132, 127, 141, 168, 58, 171, 50, 234, 242, 102, 147, 55, 62, 132, 124, 145, 184, 232, 246, 73, 94, 28, 219, 62, 202, 145, 225, 73, 40, 124, 3>>,
      <<111, 52, 22, 167, 118, 177, 253, 69, 193, 125, 160, 147, 92, 108, 32, 213, 155, 126, 33, 30, 102, 116, 38, 233, 20, 240, 86, 133, 31, 129, 166, 5>>,
      <<110, 214, 139, 243, 245, 94, 103, 123, 180, 131, 40, 123, 122, 232, 118, 64, 4, 159, 78, 213, 117, 123, 148, 110, 148, 40, 128, 217, 231, 149, 167, 41>>,
      <<47, 210, 31, 152, 153, 225, 123, 80, 92, 88, 161, 200, 130, 115, 140, 110, 130, 245, 24, 252, 122, 133, 163, 69, 235, 34, 179, 132, 12, 154, 67, 32>>,
      <<135, 200, 130, 9, 42, 111, 42, 74, 109, 75, 168, 153, 119, 242, 80, 187, 241, 31, 55, 199, 80, 32, 236, 148, 74, 207, 158, 77, 217, 168, 11, 46>>,
      <<200, 113, 125, 161, 204, 221, 208, 230, 210, 72, 144, 16, 210, 44, 130, 23, 69, 43, 130, 206, 124, 235, 56, 202, 39, 251, 8, 206, 21, 209, 63, 20>>,
      <<241, 202, 233, 59, 98, 35, 67, 200, 191, 188, 61, 50, 89, 22, 97, 248, 205, 19, 248, 220, 187, 141, 150, 87, 184, 52, 199, 177, 236, 203, 100, 12>>,
      <<83, 218, 3, 148, 239, 108, 66, 241, 112, 182, 194, 98, 141, 52, 79, 231, 90, 255, 99, 193, 37, 169, 252, 70, 246, 131, 198, 71, 88, 48, 138, 2>>,
      <<12, 227, 185, 93, 91, 117, 214, 36, 184, 39, 148, 216, 100, 203, 107, 106, 242, 128, 67, 76, 171, 64, 169, 95, 218, 111, 11, 255, 16, 245, 78, 46>>,
      <<14, 64, 121, 5, 245, 132, 99, 185, 120, 176, 51, 208, 246, 180, 37, 137, 59, 206, 86, 201, 112, 146, 215, 99, 230, 132, 51, 196, 91, 201, 129, 0>>,
      <<56, 187, 160, 35, 64, 159, 138, 186, 11, 154, 3, 156, 52, 27, 73, 226, 94, 224, 135, 230, 173, 47, 126, 24, 73, 151, 189, 28, 201, 240, 213, 46>>,
      <<6, 82, 115, 58, 243, 1, 15, 153, 140, 76, 35, 118, 44, 162, 72, 52, 240, 226, 170, 213, 78, 55, 191, 75, 80, 163, 141, 248, 145, 153, 80, 48>>,
      <<173, 198, 78, 66, 148, 144, 82, 167, 65, 123, 6, 178, 159, 17, 161, 240, 185, 86, 163, 73, 77, 124, 27, 34, 83, 154, 64, 85, 253, 32, 63, 28>>,
      <<108, 185, 220, 125, 180, 135, 8, 23, 30, 19, 142, 62, 33, 178, 107, 196, 238, 24, 110, 155, 69, 20, 149, 4, 3, 240, 93, 171, 243, 231, 180, 16>>,
      <<239, 173, 67, 46, 80, 163, 154, 3, 117, 215, 119, 192, 4, 248, 128, 221, 189, 42, 28, 137, 61, 84, 221, 61, 244, 247, 63, 156, 151, 130, 25, 42>>,
      <<145, 92, 189, 21, 19, 15, 173, 92, 249, 154, 108, 57, 188, 30, 67, 186, 93, 213, 214, 86, 173, 190, 221, 254, 182, 29, 94, 241, 100, 238, 116, 28>>,
      <<160, 70, 225, 10, 90, 228, 47, 156, 250, 140, 112, 130, 139, 46, 79, 158, 75, 27, 224, 172, 60, 48, 185, 234, 152, 127, 186, 80, 200, 62, 83, 7>>,
      <<80, 7, 76, 118, 243, 171, 17, 138, 128, 193, 66, 45, 244, 104, 92, 40, 84, 177, 23, 175, 238, 228, 81, 161, 73, 4, 80, 142, 67, 107, 87, 33>>,
      <<158, 74, 109, 131, 48, 105, 61, 116, 6, 9, 95, 129, 76, 56, 232, 188, 16, 47, 214, 147, 161, 92, 173, 8, 150, 231, 143, 155, 85, 192, 23, 47>>,
      <<14, 115, 226, 183, 177, 176, 101, 230, 74, 71, 24, 19, 32, 164, 117, 151, 188, 112, 97, 148, 174, 138, 158, 167, 8, 119, 208, 98, 56, 126, 71, 45>>,
      <<171, 126, 116, 178, 245, 224, 155, 216, 188, 90, 143, 195, 102, 34, 186, 175, 145, 242, 132, 121, 87, 149, 224, 144, 195, 100, 112, 150, 67, 82, 47, 22>>,
      <<17, 51, 57, 146, 0, 167, 119, 119, 138, 159, 242, 135, 106, 89, 168, 215, 26, 13, 229, 138, 44, 205, 78, 38, 72, 186, 233, 237, 51, 178, 76, 43>>,
      <<122, 176, 3, 94, 195, 231, 84, 66, 207, 196, 133, 109, 206, 238, 178, 109, 119, 84, 40, 98, 244, 248, 186, 29, 220, 115, 133, 221, 178, 188, 143, 44>>,
      <<169, 157, 148, 112, 184, 141, 232, 229, 173, 233, 1, 246, 233, 97, 27, 158, 25, 107, 213, 12, 63, 69, 255, 242, 106, 129, 228, 37, 119, 52, 111, 29>>,
      <<41, 85, 86, 196, 245, 154, 212, 76, 50, 49, 141, 182, 2, 172, 230, 249, 61, 145, 91, 223, 179, 216, 194, 235, 113, 190, 78, 127, 57, 12, 75, 32>>,
      <<2, 197, 121, 188, 117, 251, 248, 79, 83, 37, 220, 215, 124, 130, 203, 158, 47, 60, 60, 198, 179, 73, 17, 79, 23, 216, 79, 60, 220, 185, 76, 12>>,
      <<84, 123, 188, 69, 220, 109, 97, 154, 99, 224, 121, 82, 71, 73, 92, 30, 48, 48, 73, 79, 71, 22, 84, 162, 153, 200, 72, 20, 26, 214, 74, 23>>,
      <<239, 210, 56, 154, 212, 22, 152, 58, 161, 15, 204, 119, 193, 40, 170, 234, 226, 205, 243, 194, 78, 223, 89, 247, 137, 141, 77, 207, 123, 23, 150, 26>>,
      <<10, 163, 184, 96, 227, 172, 66, 130, 26, 60, 35, 106, 18, 44, 32, 5, 255, 196, 96, 188, 84, 128, 239, 208, 28, 215, 49, 67, 178, 4, 109, 6>>,
      <<4, 216, 27, 170, 98, 122, 3, 39, 213, 42, 224, 114, 95, 198, 28, 56, 59, 221, 198, 113, 40, 120, 149, 33, 245, 12, 11, 236, 198, 79, 76, 42>>,
      <<73, 214, 159, 33, 1, 252, 90, 229, 215, 217, 246, 70, 132, 127, 114, 94, 201, 237, 124, 74, 225, 242, 233, 71, 212, 55, 207, 108, 19, 45, 171, 19>>,
      <<154, 106, 204, 154, 134, 62, 46, 76, 25, 85, 111, 194, 206, 79, 176, 193, 105, 39, 200, 61, 132, 77, 210, 25, 22, 6, 38, 202, 47, 85, 33, 17>>,
      <<241, 207, 151, 124, 108, 84, 165, 9, 137, 74, 92, 89, 125, 38, 205, 166, 119, 125, 195, 21, 23, 200, 155, 136, 108, 61, 177, 34, 51, 101, 239, 0>>,
      <<211, 151, 163, 216, 53, 202, 90, 132, 217, 149, 37, 101, 109, 119, 12, 64, 230, 81, 64, 167, 139, 29, 38, 139, 32, 101, 166, 69, 62, 72, 37, 14>>,
      <<137, 186, 238, 121, 185, 141, 68, 70, 140, 45, 233, 221, 212, 195, 90, 57, 142, 216, 21, 158, 101, 100, 82, 36, 130, 118, 221, 185, 220, 54, 245, 41>>,
      <<190, 165, 15, 206, 170, 107, 69, 14, 23, 234, 187, 128, 39, 78, 18, 90, 136, 189, 189, 93, 87, 51, 218, 223, 186, 254, 83, 44, 159, 239, 86, 42>>,
      <<241, 154, 203, 168, 64, 98, 65, 238, 232, 98, 103, 164, 153, 41, 174, 242, 9, 196, 181, 23, 45, 122, 251, 236, 93, 207, 181, 142, 199, 97, 131, 28>>,
      <<197, 25, 67, 231, 75, 171, 208, 211, 191, 7, 69, 118, 138, 230, 232, 131, 107, 32, 240, 170, 137, 48, 71, 192, 15, 10, 178, 56, 95, 255, 26, 21>>,
      <<0, 241, 81, 91, 97, 71, 110, 231, 209, 205, 182, 200, 200, 47, 245, 169, 67, 157, 127, 143, 200, 57, 178, 193, 29, 136, 237, 65, 126, 24, 198, 4>>,
      <<103, 41, 156, 220, 125, 27, 128, 158, 68, 118, 87, 209, 30, 198, 129, 75, 83, 109, 251, 246, 49, 67, 216, 16, 251, 39, 77, 15, 216, 123, 179, 19>>,
      <<228, 168, 232, 196, 177, 206, 33, 147, 44, 3, 82, 42, 76, 102, 227, 44, 122, 123, 193, 50, 189, 191, 120, 245, 157, 45, 60, 39, 54, 197, 165, 1>>,
      <<2, 59, 124, 91, 6, 57, 34, 131, 218, 38, 151, 107, 102, 44, 154, 74, 11, 149, 203, 122, 93, 95, 208, 90, 131, 115, 202, 52, 24, 86, 179, 42>>,
      <<70, 182, 151, 165, 22, 213, 126, 159, 246, 59, 93, 233, 244, 106, 175, 172, 19, 214, 192, 134, 214, 230, 15, 32, 219, 32, 231, 145, 194, 142, 77, 29>>,
      <<29, 175, 101, 11, 200, 201, 20, 21, 113, 75, 160, 64, 18, 53, 37, 185, 43, 253, 25, 121, 254, 132, 87, 143, 34, 77, 72, 204, 210, 148, 18, 4>>,
      <<198, 31, 232, 144, 221, 113, 41, 4, 146, 227, 38, 209, 57, 121, 245, 152, 72, 0, 31, 153, 21, 167, 79, 28, 97, 140, 112, 1, 142, 201, 74, 21>>,
      <<164, 77, 234, 198, 59, 86, 36, 69, 176, 176, 248, 136, 76, 104, 179, 80, 16, 245, 174, 147, 64, 216, 237, 62, 248, 212, 167, 204, 138, 157, 51, 11>>,
      <<46, 200, 57, 8, 181, 149, 237, 129, 221, 167, 244, 175, 30, 231, 240, 152, 69, 52, 171, 251, 76, 248, 164, 84, 66, 201, 16, 102, 158, 228, 85, 9>>,
      <<38, 70, 101, 160, 30, 64, 37, 53, 111, 92, 83, 111, 30, 244, 166, 169, 188, 90, 241, 6, 34, 226, 185, 38, 68, 165, 235, 86, 97, 106, 116, 6>>,
      <<251, 119, 32, 243, 127, 124, 145, 172, 150, 161, 208, 43, 14, 121, 229, 56, 120, 194, 73, 197, 32, 56, 111, 73, 60, 66, 209, 236, 160, 245, 24, 15>>,
      <<19, 110, 247, 214, 35, 130, 115, 42, 201, 123, 222, 62, 88, 99, 181, 75, 30, 38, 235, 91, 255, 158, 197, 138, 48, 247, 81, 23, 202, 238, 246, 4>>,
      <<88, 55, 11, 252, 38, 141, 118, 193, 91, 228, 179, 111, 17, 235, 17, 136, 3, 206, 205, 163, 77, 236, 163, 193, 245, 196, 196, 100, 51, 151, 86, 43>>,
      <<239, 41, 127, 67, 93, 182, 254, 131, 93, 106, 113, 133, 179, 146, 19, 142, 203, 27, 75, 128, 137, 107, 215, 220, 84, 176, 213, 73, 221, 105, 55, 18>>,
      <<233, 99, 28, 176, 47, 123, 37, 148, 9, 21, 113, 100, 68, 246, 137, 169, 206, 170, 105, 17, 185, 82, 238, 136, 10, 200, 72, 252, 36, 180, 71, 33>>,
      <<77, 229, 235, 124, 137, 173, 84, 234, 194, 67, 66, 173, 52, 111, 126, 100, 41, 42, 51, 234, 5, 85, 108, 26, 112, 133, 139, 84, 88, 31, 220, 15>>,
      <<242, 177, 160, 192, 92, 104, 79, 148, 195, 224, 187, 93, 140, 242, 239, 188, 212, 134, 119, 15, 207, 171, 104, 223, 4, 160, 254, 81, 130, 58, 55, 18>>,
      <<53, 0, 169, 193, 53, 31, 138, 221, 3, 66, 244, 106, 107, 117, 66, 166, 232, 201, 66, 247, 47, 165, 126, 173, 91, 248, 53, 95, 234, 244, 228, 33>>,
      <<71, 177, 195, 27, 79, 147, 129, 138, 13, 233, 69, 47, 73, 102, 115, 181, 98, 196, 212, 36, 34, 114, 180, 223, 163, 44, 157, 214, 22, 57, 36, 22>>,
      <<194, 74, 192, 202, 89, 65, 58, 161, 60, 69, 160, 225, 102, 21, 194, 171, 120, 67, 139, 200, 219, 154, 111, 246, 180, 120, 165, 215, 109, 228, 251, 30>>,
      <<154, 150, 136, 106, 201, 44, 103, 59, 133, 111, 230, 91, 82, 213, 104, 212, 135, 243, 167, 35, 14, 2, 134, 136, 208, 93, 207, 55, 133, 94, 234, 7>>,
      <<188, 0, 108, 183, 192, 22, 254, 169, 28, 225, 124, 94, 167, 25, 15, 101, 99, 91, 154, 15, 163, 120, 180, 183, 163, 138, 139, 150, 249, 196, 168, 5>>,
      <<63, 232, 50, 42, 183, 87, 157, 45, 136, 199, 185, 1, 199, 24, 120, 63, 172, 141, 94, 52, 189, 89, 254, 251, 84, 22, 194, 44, 113, 87, 240, 32>>,
      <<105, 219, 51, 235, 51, 11, 217, 155, 1, 73, 29, 208, 136, 142, 205, 109, 99, 49, 238, 127, 198, 248, 114, 150, 104, 253, 157, 218, 222, 46, 161, 4>>,
      <<26, 16, 205, 76, 84, 201, 158, 228, 103, 103, 26, 9, 229, 108, 19, 189, 236, 29, 165, 37, 84, 30, 79, 228, 206, 125, 243, 21, 140, 141, 232, 39>>,
      <<209, 228, 61, 67, 238, 65, 108, 23, 35, 50, 112, 167, 25, 102, 9, 110, 246, 65, 90, 233, 197, 200, 165, 184, 217, 94, 40, 132, 123, 209, 238, 47>>,
      <<184, 242, 175, 83, 189, 184, 114, 105, 13, 42, 49, 17, 41, 148, 229, 148, 243, 156, 114, 15, 66, 65, 66, 64, 124, 92, 244, 237, 118, 204, 215, 30>>,
      <<26, 107, 70, 69, 190, 116, 40, 223, 202, 205, 68, 97, 71, 131, 103, 172, 14, 102, 245, 134, 197, 248, 127, 21, 35, 163, 191, 185, 153, 46, 116, 21>>,
      <<133, 199, 208, 39, 63, 3, 79, 40, 23, 3, 236, 198, 84, 116, 16, 119, 5, 244, 221, 135, 104, 252, 149, 200, 130, 94, 246, 135, 83, 40, 172, 26>>,
      <<119, 124, 214, 84, 101, 169, 117, 236, 113, 95, 119, 73, 122, 46, 46, 131, 87, 115, 5, 182, 189, 173, 221, 249, 144, 71, 93, 132, 60, 28, 133, 37>>,
      <<103, 106, 20, 159, 61, 204, 220, 13, 55, 35, 85, 44, 186, 235, 183, 83, 243, 237, 151, 177, 125, 69, 120, 206, 194, 46, 204, 101, 21, 130, 165, 21>>,
      <<39, 23, 199, 40, 95, 72, 21, 47, 80, 119, 66, 4, 54, 79, 246, 220, 102, 89, 219, 161, 49, 126, 250, 14, 152, 185, 19, 72, 122, 213, 17, 36>>,
      <<155, 76, 203, 246, 94, 139, 130, 88, 37, 205, 244, 18, 142, 169, 233, 71, 230, 210, 182, 192, 184, 53, 227, 19, 71, 205, 32, 101, 141, 111, 46, 0>>,
      <<210, 21, 3, 158, 96, 52, 136, 57, 215, 30, 254, 226, 145, 14, 143, 175, 209, 252, 176, 22, 182, 0, 218, 151, 233, 205, 128, 67, 143, 188, 247, 47>>,
      <<190, 60, 13, 187, 254, 228, 59, 233, 241, 104, 187, 183, 246, 33, 149, 46, 24, 205, 27, 71, 36, 39, 224, 94, 89, 37, 133, 148, 27, 131, 185, 0>>,
      <<18, 53, 156, 12, 191, 173, 119, 125, 168, 67, 71, 138, 100, 8, 164, 28, 1, 78, 192, 87, 14, 59, 145, 134, 106, 191, 142, 139, 118, 83, 47, 10>>,
      <<141, 25, 225, 5, 3, 41, 42, 127, 155, 230, 75, 233, 247, 159, 89, 15, 150, 158, 35, 255, 145, 159, 71, 58, 55, 208, 47, 20, 86, 129, 36, 0>>,
      <<169, 205, 43, 43, 42, 81, 235, 80, 35, 44, 84, 106, 170, 150, 113, 57, 154, 12, 63, 171, 2, 140, 207, 40, 19, 251, 123, 184, 32, 86, 29, 23>>,
      <<8, 168, 52, 236, 228, 69, 16, 157, 217, 77, 213, 45, 23, 82, 201, 96, 215, 250, 214, 16, 124, 124, 8, 112, 201, 125, 111, 83, 85, 79, 10, 23>>,
      <<225, 250, 219, 226, 23, 202, 46, 72, 186, 17, 210, 28, 140, 227, 55, 204, 110, 51, 4, 234, 74, 19, 243, 46, 108, 230, 159, 121, 63, 163, 171, 41>>,
      <<115, 73, 230, 105, 3, 101, 186, 181, 232, 160, 246, 3, 74, 17, 13, 231, 71, 141, 8, 69, 25, 187, 209, 253, 88, 215, 253, 164, 121, 193, 155, 30>>,
      <<9, 143, 175, 189, 67, 28, 158, 156, 79, 180, 196, 169, 105, 216, 170, 254, 90, 11, 251, 45, 137, 244, 247, 88, 173, 15, 102, 155, 121, 105, 210, 29>>,
      <<56, 175, 36, 15, 203, 210, 29, 93, 201, 199, 105, 232, 111, 66, 205, 124, 158, 69, 21, 46, 208, 129, 17, 64, 209, 122, 17, 112, 139, 188, 205, 34>>,
      <<253, 206, 218, 199, 185, 147, 186, 213, 124, 74, 217, 46, 245, 80, 49, 253, 206, 63, 80, 92, 165, 87, 159, 58, 83, 28, 119, 84, 228, 66, 240, 14>>,
      <<132, 130, 46, 166, 252, 79, 48, 59, 160, 89, 3, 138, 176, 232, 24, 19, 133, 232, 55, 96, 3, 243, 135, 242, 226, 143, 108, 173, 6, 158, 96, 17>>,
      <<175, 169, 58, 120, 91, 143, 176, 8, 39, 228, 223, 118, 192, 88, 205, 254, 183, 23, 124, 66, 234, 62, 117, 158, 186, 109, 97, 84, 229, 217, 102, 17>>,
      <<102, 228, 126, 53, 136, 168, 85, 248, 86, 11, 172, 210, 76, 191, 127, 23, 219, 19, 68, 53, 38, 48, 65, 147, 149, 133, 26, 67, 137, 41, 229, 45>>,
      <<173, 233, 113, 95, 207, 1, 191, 116, 157, 232, 184, 23, 91, 238, 26, 245, 29, 172, 168, 243, 146, 164, 109, 154, 129, 133, 122, 252, 79, 235, 6, 48>>,
      <<134, 80, 20, 37, 130, 76, 52, 98, 249, 57, 70, 10, 143, 254, 147, 41, 66, 111, 63, 158, 255, 111, 207, 253, 128, 138, 186, 97, 187, 31, 244, 42>>,
      <<195, 39, 72, 206, 186, 20, 178, 129, 231, 133, 158, 136, 39, 171, 24, 135, 219, 133, 188, 142, 26, 180, 166, 229, 95, 21, 118, 228, 77, 104, 158, 17>>,
      <<0, 216, 63, 123, 185, 132, 247, 207, 71, 240, 40, 56, 194, 72, 18, 181, 55, 53, 54, 174, 89, 234, 139, 24, 94, 146, 232, 226, 134, 183, 53, 24>>,
      <<182, 238, 50, 171, 133, 226, 64, 108, 146, 92, 144, 167, 194, 186, 82, 209, 32, 58, 67, 198, 150, 73, 121, 77, 163, 223, 148, 197, 52, 26, 32, 40>>,
      <<231, 196, 44, 194, 136, 31, 118, 74, 114, 135, 17, 87, 235, 130, 76, 134, 0, 176, 120, 175, 239, 15, 232, 148, 16, 117, 209, 39, 122, 253, 62, 8>>,
      <<59, 209, 31, 246, 100, 149, 7, 158, 81, 216, 77, 119, 247, 109, 193, 17, 232, 123, 162, 238, 28, 230, 88, 97, 82, 153, 113, 87, 163, 136, 111, 11>>,
      <<91, 79, 37, 228, 110, 14, 57, 20, 16, 158, 210, 0, 202, 17, 149, 88, 148, 26, 71, 214, 225, 102, 79, 100, 217, 81, 94, 209, 230, 104, 200, 14>>,
      <<145, 133, 201, 132, 171, 55, 217, 0, 13, 212, 156, 147, 75, 231, 211, 236, 66, 17, 46, 237, 179, 201, 192, 26, 39, 113, 103, 134, 63, 62, 243, 42>>,
      <<120, 241, 81, 121, 228, 229, 76, 54, 139, 133, 214, 125, 84, 140, 86, 52, 119, 206, 106, 28, 150, 93, 155, 208, 231, 181, 4, 249, 17, 2, 82, 11>>,
      <<64, 29, 138, 24, 32, 134, 34, 202, 44, 130, 14, 39, 196, 106, 197, 160, 46, 169, 98, 0, 241, 88, 219, 216, 170, 161, 25, 9, 45, 114, 45, 11>>,
      <<212, 98, 229, 214, 30, 29, 6, 224, 187, 56, 202, 145, 153, 74, 181, 87, 233, 83, 36, 124, 179, 206, 128, 217, 148, 240, 140, 127, 77, 13, 121, 31>>,
      <<51, 66, 80, 30, 176, 206, 146, 218, 168, 166, 162, 53, 98, 193, 133, 8, 21, 128, 247, 133, 211, 124, 169, 174, 30, 125, 191, 223, 149, 235, 113, 1>>,
      <<115, 136, 22, 27, 56, 5, 35, 118, 80, 134, 44, 253, 222, 64, 11, 121, 155, 107, 166, 93, 136, 246, 155, 50, 73, 117, 213, 95, 59, 14, 45, 12>>,
      <<141, 161, 7, 68, 5, 3, 56, 93, 195, 131, 226, 137, 165, 175, 188, 124, 55, 43, 231, 180, 40, 130, 90, 78, 21, 39, 156, 104, 40, 251, 98, 17>>,
      <<192, 27, 113, 73, 130, 239, 35, 22, 146, 25, 158, 168, 146, 90, 44, 40, 15, 49, 232, 145, 106, 56, 173, 100, 27, 68, 238, 93, 182, 89, 20, 47>>,
      <<187, 207, 83, 27, 13, 247, 67, 194, 18, 183, 78, 117, 70, 157, 72, 188, 193, 212, 92, 125, 54, 116, 109, 153, 61, 140, 104, 107, 33, 243, 111, 30>>,
      <<117, 136, 71, 38, 147, 31, 136, 118, 5, 42, 220, 108, 243, 166, 65, 215, 2, 120, 21, 125, 210, 135, 20, 104, 208, 184, 50, 56, 231, 139, 202, 1>>,
      <<14, 101, 249, 21, 227, 93, 155, 11, 160, 206, 16, 11, 8, 134, 2, 104, 220, 35, 242, 189, 213, 118, 249, 134, 197, 159, 254, 111, 112, 53, 119, 31>>,
      <<25, 240, 133, 130, 131, 202, 69, 71, 239, 150, 240, 213, 163, 16, 172, 33, 169, 251, 65, 224, 220, 194, 160, 64, 118, 48, 163, 78, 15, 182, 34, 37>>,
      <<91, 87, 114, 85, 35, 108, 225, 140, 63, 108, 43, 245, 212, 202, 24, 52, 131, 127, 149, 220, 93, 7, 85, 82, 157, 2, 177, 1, 224, 190, 240, 35>>,
      <<89, 45, 8, 147, 16, 64, 217, 102, 95, 144, 223, 233, 51, 38, 20, 93, 104, 213, 94, 85, 68, 45, 172, 202, 31, 184, 219, 141, 139, 174, 193, 43>>,
      <<95, 32, 114, 173, 214, 252, 17, 128, 201, 31, 123, 160, 115, 18, 55, 98, 209, 62, 186, 141, 123, 80, 4, 115, 163, 100, 101, 41, 184, 6, 148, 15>>,
      <<168, 240, 149, 217, 140, 108, 18, 203, 74, 238, 82, 74, 23, 91, 231, 23, 78, 113, 144, 222, 152, 41, 183, 103, 250, 222, 199, 12, 235, 168, 96, 35>>,
      <<72, 137, 248, 103, 39, 188, 203, 109, 0, 139, 223, 150, 94, 90, 129, 180, 94, 37, 239, 186, 60, 128, 76, 128, 118, 217, 234, 221, 92, 26, 135, 21>>,
      <<15, 66, 251, 238, 205, 124, 149, 79, 84, 121, 35, 247, 84, 79, 47, 54, 160, 29, 59, 47, 221, 82, 134, 10, 158, 238, 152, 105, 118, 86, 58, 25>>,
      <<15, 174, 119, 231, 5, 152, 48, 228, 52, 72, 51, 173, 200, 99, 46, 59, 112, 177, 250, 244, 111, 229, 155, 47, 152, 134, 79, 147, 67, 74, 57, 42>>,
      <<66, 209, 192, 118, 136, 110, 22, 180, 167, 59, 68, 35, 18, 209, 44, 137, 146, 81, 52, 203, 93, 99, 139, 62, 95, 105, 184, 254, 76, 149, 89, 24>>,
      <<43, 211, 254, 244, 25, 56, 141, 64, 202, 189, 11, 217, 37, 188, 17, 43, 144, 241, 153, 203, 219, 68, 52, 1, 88, 14, 5, 99, 23, 24, 225, 4>>,
      <<35, 95, 208, 191, 82, 85, 94, 31, 139, 94, 139, 176, 45, 184, 14, 177, 91, 140, 222, 100, 234, 53, 195, 64, 157, 134, 131, 238, 61, 37, 219, 15>>,
      <<192, 241, 180, 233, 186, 197, 215, 169, 132, 137, 192, 241, 134, 134, 240, 117, 98, 173, 222, 58, 98, 251, 78, 170, 189, 39, 80, 154, 138, 190, 140, 5>>,
      <<154, 165, 236, 204, 180, 40, 82, 209, 176, 58, 2, 239, 59, 184, 180, 35, 43, 245, 177, 174, 177, 173, 126, 73, 134, 225, 113, 153, 206, 237, 130, 19>>,
      <<181, 232, 217, 1, 70, 99, 230, 225, 119, 75, 241, 153, 235, 184, 97, 127, 190, 176, 17, 253, 81, 202, 25, 8, 238, 198, 69, 240, 144, 73, 70, 3>>,
      <<88, 10, 183, 174, 55, 193, 91, 170, 90, 235, 178, 93, 96, 180, 202, 111, 60, 248, 143, 249, 65, 59, 243, 255, 150, 194, 13, 114, 200, 191, 247, 35>>,
      <<242, 98, 175, 187, 88, 97, 99, 25, 146, 26, 83, 225, 213, 255, 195, 24, 207, 222, 233, 240, 231, 148, 110, 126, 17, 194, 238, 227, 88, 161, 89, 10>>,
      <<123, 208, 95, 7, 208, 62, 194, 244, 248, 10, 66, 101, 160, 235, 196, 226, 60, 253, 47, 49, 59, 242, 139, 181, 82, 192, 129, 3, 200, 84, 236, 6>>,
      <<1, 157, 31, 237, 249, 15, 47, 150, 180, 177, 188, 167, 247, 64, 147, 176, 200, 126, 134, 142, 100, 86, 107, 71, 181, 14, 46, 131, 220, 114, 136, 17>>,
      <<177, 33, 9, 82, 107, 144, 225, 149, 234, 127, 45, 228, 240, 176, 224, 82, 237, 89, 173, 167, 203, 199, 213, 90, 22, 52, 216, 39, 161, 159, 214, 19>>,
      <<123, 199, 16, 159, 241, 73, 138, 253, 85, 220, 113, 251, 66, 57, 20, 222, 27, 210, 115, 122, 135, 198, 177, 112, 18, 104, 234, 99, 127, 23, 154, 22>>,
      <<77, 84, 80, 116, 90, 154, 126, 251, 111, 246, 34, 185, 50, 176, 190, 58, 217, 64, 206, 173, 135, 242, 66, 239, 151, 173, 110, 28, 89, 81, 239, 4>>,
      <<236, 105, 15, 221, 230, 94, 244, 213, 206, 3, 79, 93, 128, 97, 236, 25, 59, 46, 251, 3, 167, 124, 205, 14, 57, 121, 192, 29, 90, 23, 110, 37>>,
      <<178, 238, 44, 62, 61, 129, 2, 160, 45, 221, 5, 50, 13, 54, 204, 117, 79, 0, 246, 47, 65, 175, 242, 229, 95, 189, 106, 99, 40, 45, 16, 48>>,
      <<146, 199, 252, 130, 225, 27, 211, 31, 163, 244, 190, 153, 250, 163, 67, 4, 244, 27, 235, 115, 188, 20, 7, 28, 191, 59, 205, 223, 66, 142, 153, 16>>,
      <<96, 104, 227, 121, 248, 118, 173, 236, 239, 130, 213, 244, 234, 98, 51, 159, 216, 161, 152, 181, 36, 125, 250, 37, 118, 61, 207, 159, 142, 221, 62, 25>>,
      <<93, 11, 31, 165, 122, 77, 102, 242, 37, 20, 97, 206, 97, 165, 199, 209, 71, 51, 123, 11, 232, 140, 54, 208, 21, 217, 242, 52, 253, 138, 22, 24>>,
      <<17, 97, 234, 51, 91, 233, 226, 41, 110, 98, 51, 188, 119, 236, 40, 163, 182, 88, 230, 235, 86, 118, 1, 12, 171, 182, 211, 235, 1, 60, 56, 41>>,
      <<17, 199, 16, 144, 63, 87, 191, 0, 182, 106, 183, 111, 232, 182, 45, 112, 74, 166, 113, 119, 94, 174, 244, 161, 57, 222, 3, 38, 47, 109, 100, 16>>,
      <<251, 23, 17, 203, 45, 36, 208, 100, 56, 123, 218, 64, 91, 194, 144, 47, 19, 191, 85, 90, 57, 241, 117, 245, 69, 113, 178, 209, 7, 94, 235, 11>>,
      <<54, 163, 111, 217, 24, 240, 251, 223, 171, 89, 75, 229, 178, 91, 249, 48, 136, 92, 43, 214, 202, 62, 13, 220, 51, 193, 120, 32, 37, 133, 214, 22>>,
      <<26, 240, 71, 32, 214, 45, 103, 253, 250, 221, 33, 236, 187, 91, 85, 10, 180, 180, 4, 4, 78, 21, 116, 60, 243, 56, 57, 131, 29, 189, 106, 10>>,
      <<96, 24, 207, 52, 155, 241, 166, 112, 114, 49, 80, 196, 238, 255, 45, 177, 254, 200, 237, 45, 76, 42, 161, 142, 92, 123, 235, 54, 93, 159, 103, 26>>,
      <<214, 147, 27, 63, 46, 89, 199, 251, 111, 143, 78, 218, 234, 35, 164, 38, 71, 222, 191, 14, 14, 213, 116, 57, 194, 86, 212, 59, 35, 251, 128, 9>>,
      <<43, 199, 18, 195, 181, 172, 235, 3, 32, 40, 201, 40, 86, 61, 206, 206, 192, 143, 163, 147, 175, 16, 24, 191, 76, 184, 97, 46, 35, 66, 27, 22>>,
      <<11, 26, 222, 71, 219, 3, 146, 208, 229, 100, 21, 127, 120, 9, 63, 73, 106, 94, 13, 166, 71, 125, 15, 149, 32, 5, 127, 12, 169, 16, 218, 10>>,
      <<81, 244, 7, 244, 154, 219, 13, 181, 27, 18, 78, 43, 138, 122, 240, 211, 142, 35, 196, 154, 162, 69, 3, 50, 130, 186, 16, 35, 55, 13, 115, 26>>,
      <<86, 197, 232, 88, 239, 16, 218, 251, 223, 196, 165, 171, 254, 119, 131, 144, 234, 167, 221, 105, 195, 100, 112, 129, 79, 5, 239, 104, 242, 32, 129, 44>>,
      <<112, 143, 150, 164, 73, 134, 123, 110, 62, 183, 188, 19, 83, 233, 48, 185, 23, 66, 104, 156, 120, 0, 124, 165, 63, 117, 88, 247, 36, 136, 124, 28>>,
      <<119, 207, 209, 63, 250, 39, 123, 180, 247, 179, 30, 73, 139, 173, 0, 244, 160, 250, 116, 122, 7, 228, 57, 142, 28, 105, 248, 245, 49, 237, 217, 44>>,
      <<234, 46, 162, 24, 57, 226, 74, 133, 80, 165, 28, 50, 172, 34, 224, 165, 153, 131, 97, 87, 47, 217, 96, 207, 87, 52, 129, 70, 157, 79, 255, 35>>,
      <<109, 66, 128, 241, 88, 234, 241, 223, 7, 148, 82, 3, 81, 44, 90, 175, 208, 217, 221, 93, 64, 230, 236, 206, 102, 79, 122, 20, 93, 90, 148, 9>>,
      <<48, 198, 111, 236, 35, 210, 109, 138, 38, 63, 157, 162, 234, 166, 125, 124, 15, 185, 113, 183, 198, 96, 118, 182, 194, 212, 37, 128, 82, 156, 141, 24>>,
      <<127, 244, 240, 244, 221, 216, 192, 224, 149, 53, 99, 211, 38, 217, 167, 219, 52, 135, 29, 67, 17, 131, 246, 129, 127, 107, 89, 150, 121, 227, 80, 48>>,
      <<120, 253, 10, 211, 24, 149, 130, 157, 216, 149, 63, 30, 70, 229, 234, 108, 66, 92, 195, 2, 129, 202, 0, 22, 169, 48, 104, 57, 105, 17, 175, 21>>,
      <<204, 138, 13, 50, 163, 77, 40, 4, 41, 107, 70, 81, 227, 51, 233, 218, 133, 217, 115, 248, 55, 159, 109, 160, 169, 46, 67, 133, 152, 208, 166, 29>>,
      <<203, 169, 218, 29, 65, 238, 70, 229, 69, 137, 101, 190, 61, 173, 79, 78, 78, 18, 33, 57, 243, 172, 248, 245, 41, 175, 105, 210, 144, 234, 150, 39>>,
      <<96, 45, 211, 1, 158, 49, 176, 124, 74, 48, 233, 200, 46, 97, 21, 30, 240, 66, 119, 48, 179, 200, 37, 3, 75, 107, 15, 218, 209, 125, 45, 32>>,
      <<95, 190, 248, 192, 228, 172, 157, 162, 49, 200, 244, 136, 199, 249, 215, 162, 114, 214, 99, 162, 43, 149, 106, 21, 89, 183, 91, 208, 144, 103, 109, 9>>,
      <<164, 37, 125, 68, 177, 140, 121, 99, 25, 62, 177, 229, 60, 162, 141, 67, 123, 135, 93, 39, 101, 137, 128, 131, 226, 252, 176, 101, 31, 250, 78, 5>>,
      <<241, 101, 65, 142, 225, 246, 204, 100, 72, 225, 178, 19, 1, 105, 170, 216, 185, 222, 2, 152, 194, 8, 51, 219, 62, 233, 23, 217, 131, 47, 22, 27>>,
      <<220, 110, 80, 160, 69, 183, 206, 197, 142, 86, 204, 102, 20, 252, 254, 237, 158, 227, 13, 42, 221, 28, 159, 253, 214, 77, 86, 18, 30, 36, 229, 33>>,
      <<8, 223, 75, 14, 225, 73, 67, 123, 146, 97, 225, 135, 95, 171, 115, 203, 190, 106, 179, 23, 238, 128, 106, 34, 201, 90, 207, 232, 98, 86, 251, 28>>,
      <<0, 65, 178, 110, 102, 63, 197, 41, 1, 172, 32, 98, 52, 175, 153, 44, 182, 115, 179, 236, 209, 216, 230, 186, 27, 119, 42, 48, 126, 23, 33, 15>>,
      <<32, 35, 92, 81, 31, 126, 239, 188, 70, 5, 41, 230, 237, 106, 35, 196, 190, 18, 27, 247, 215, 13, 251, 175, 146, 105, 96, 116, 35, 82, 113, 22>>,
      <<112, 216, 202, 146, 166, 210, 25, 212, 204, 200, 92, 44, 228, 201, 46, 190, 217, 250, 27, 80, 36, 207, 180, 46, 156, 37, 136, 148, 91, 236, 163, 15>>,
      <<186, 75, 181, 26, 123, 197, 232, 133, 192, 140, 100, 92, 232, 220, 110, 211, 14, 8, 6, 21, 108, 38, 203, 87, 131, 41, 189, 224, 4, 14, 60, 25>>,
      <<248, 104, 186, 218, 42, 234, 20, 206, 120, 101, 64, 205, 145, 114, 111, 159, 201, 195, 203, 109, 48, 40, 145, 126, 162, 53, 71, 247, 142, 223, 42, 16>>,
      <<177, 234, 195, 112, 203, 208, 166, 64, 174, 35, 221, 251, 75, 162, 106, 49, 177, 69, 217, 26, 111, 77, 165, 226, 89, 152, 228, 88, 120, 175, 224, 15>>,
      <<34, 141, 121, 68, 115, 234, 165, 232, 253, 222, 235, 169, 218, 241, 165, 45, 78, 63, 132, 32, 34, 106, 83, 8, 219, 222, 199, 187, 23, 103, 111, 33>>,
      <<97, 81, 50, 40, 66, 46, 142, 248, 62, 107, 60, 119, 172, 178, 35, 60, 27, 138, 145, 145, 67, 105, 62, 74, 31, 210, 240, 0, 201, 92, 165, 29>>>>

M_T3_FR ==
    <<<<<<139, 17, 168, 43, 89, 104, 219, 254, 139, 55, 36, 173, 17, 124, 190, 148, 177, 167, 54, 92, 175, 12, 183, 178, 201, 228, 160, 27, 65, 127, 155, 16>>,
        <<224, 3, 73, 220, 67, 69, 198, 214, 85, 234, 222, 219, 159, 220, 20, 147, 188, 188, 221, 79, 66, 25, 225, 106, 198, 192, 185, 59, 225, 65, 237, 22>>,
        <<109, 115, 54, 78, 183, 147, 26, 121, 123, 36, 235, 12, 100, 171, 6, 247, 13, 46, 232, 191, 220, 231, 23, 246, 137, 5, 202, 15, 160, 187, 144, 43>>>>,
      <<<<113, 215, 11, 222, 188, 64, 41, 214, 222, 61, 92, 65, 209, 253, 200, 44, 202, 219, 121, 67, 118, 108, 195, 185, 128, 164, 49, 237, 126, 242, 105, 41>>,
        <<35, 254, 177, 135, 22, 49, 178, 41, 64, 150, 123, 140, 60, 116, 157, 184, 193, 61, 150, 50, 200, 113, 152, 76, 57, 236, 2, 236, 249, 25, 36, 46>>,
        <<250, 155, 248, 160, 85, 204, 170, 200, 101, 176, 95, 159, 16, 78, 141, 20, 61, 5, 15, 105, 118, 88, 49, 151, 182, 121, 35, 3, 240, 113, 16, 16>>>>,
      <<<<167, 177, 161, 101, 238, 68, 98, 50, 83, 55, 91, 140, 226, 121, 205, 230, 92, 6, 56, 70, 101, 158, 95, 13, 51, 63, 106, 104, 236, 33, 48, 20>>,
        <<17, 41, 238, 200, 171, 223, 108, 177, 182, 215, 231, 88, 46, 225, 87, 208, 153, 253, 166, 8, 255, 14, 167, 130, 37, 208, 90, 105, 41, 192, 108, 23>>,
        <<224, 213, 37, 29, 215, 156, 39, 115, 119, 63, 4, 7, 3, 71, 68, 166, 63, 89, 2, 56, 238, 127, 186, 23, 244, 43, 112, 86, 10, 252, 163, 25>>>>>>

\* ------------------------------------------------------------------------
\* Fr::to_string and the Poseidon hash (poseidon.rs)
\* ------------------------------------------------------------------------
\* the long division of mod_small and div_small by n, on the bytes hi..lo of
\* a counted from the top: st is <<the bytes of the quotient so far, rem>>
RECURSIVE div_rem_bytes(_, _, _, _, _)
div_rem_bytes(a, n, st, lo, hi) ==
    IF lo = hi
    THEN Bind(256 * st[2] + a[WordBytes + 1 - lo],
              LAMBDA cur : <<(<<cur \div n>>) \o st[1], cur % n>>)
    ELSE Bind(div_rem_bytes(a, n, st, lo, (lo + hi) \div 2), LAMBDA m :
              div_rem_bytes(a, n, m, (lo + hi) \div 2 + 1, hi))

\* Fr::mod_small
mod_small(a, n) == div_rem_bytes(a, n, <<(<<>>), 0>>, 1, WordBytes)[2]

\* Fr::div_small
div_small(a, n) == div_rem_bytes(a, n, <<(<<>>), 0>>, 1, WordBytes)[1]

\* one turn of the loop of to_string on <<temp, the digits so far>>, the
\* last digit pushed standing first; no turn once temp is zero
to_string_round(st) ==
    IF Fr_is_zero(st[1]) THEN st
    ELSE Bind(div_rem_bytes(st[1], 10, <<(<<>>), 0>>, 1, WordBytes),
              LAMBDA d : <<d[1], (<<Digit(d[2])>>) \o st[2]>>)

\* n turns of the loop, the first half of them then the second
RECURSIVE to_string_rounds(_, _)
to_string_rounds(st, n) ==
    IF n = 1 THEN to_string_round(st)
    ELSE Bind(to_string_rounds(st, n \div 2), LAMBDA m : to_string_rounds(m, n - n \div 2))

\* Fr::to_string; a value of 32 bytes has 78 digits at most, so the loop has
\* ended after 3 * WordBytes turns
Fr_to_string(a) ==
    IF Fr_is_zero(a) THEN <<"0">>
    ELSE to_string_rounds(<<a, (<<>>)>>, 3 * WordBytes)[2]

\* T of poseidon_t3: the width of the state
T == 3

N_ROUNDS_F == 8

N_ROUNDS_P == 57

\* the inner loop of mds_multiply_t3 after j iterations: result[i] once
\* state[1..j] * row[1..j] have been added to it, from zero
RECURSIVE mds_row(_, _, _)
mds_row(state, row, j) ==
    IF j = 0 THEN Fr_ZERO
    ELSE Bind(mds_row(state, row, j - 1), LAMBDA result_i :
         Bind(Fr_mul(state[j], row[j]), LAMBDA product : Fr_add(result_i, product)))

\* mds_multiply_t3 with the matrix transposed
mds_multiply_t3_transposed(state, m) ==
    [i \in 1..3 |-> mds_row(state, <<m[1][i], m[2][i], m[3][i]>>, 3)] \o <<>>

\* mds_multiply_t3: result[i] is the sum over j, from zero, of
\* state[j] * m[i][j]
mds_multiply_t3(state, m) ==
    [i \in 1..3 |-> mds_row(state, m[i], 3)] \o <<>>

\* "Add round constants" of a round: state[i] + c[round * T + i] where that
\* index is within c (the sequences here count from 1, the arrays from 0)
add_round_constants(state, round) ==
    [i \in 1..T |-> IF round * T + (i - 1) < Len(C_T3_FR)
                    THEN Fr_add(state[i], C_T3_FR[round * T + i])
                    ELSE state[i]] \o <<>>

\* the body of the loops of full rounds on st = <<state, round>>
full_round(st) ==
    Bind(add_round_constants(st[1], st[2]), LAMBDA s :
    Bind([i \in 1..T |-> pow5(s[i])] \o <<>>, LAMBDA b :
         <<mds_multiply_t3(b, M_T3_FR), st[2] + 1>>))

\* a partial round with the S-box on all elements
partial_round_all_elements(st) == full_round(st)

\* the body of the loop of partial rounds on st = <<state, round>>
partial_round(st) ==
    Bind(add_round_constants(st[1], st[2]), LAMBDA s :
    Bind([s EXCEPT ![1] = pow5(s[1])], LAMBDA b :
         <<mds_multiply_t3(b, M_T3_FR), st[2] + 1>>))

\* a loop of n full rounds, the first half of them then the second
RECURSIVE full_rounds(_, _)
full_rounds(st, n) ==
    IF n = 1 THEN full_round(st)
    ELSE Bind(full_rounds(st, n \div 2), LAMBDA m : full_rounds(m, n - n \div 2))

\* the loop of n partial rounds
RECURSIVE partial_rounds(_, _)
partial_rounds(st, n) ==
    IF n = 1 THEN partial_round(st)
    ELSE Bind(partial_rounds(st, n \div 2), LAMBDA m : partial_rounds(m, n - n \div 2))

\* the state poseidon_t3 starts from: [0, input1, input2]
initial_state(inputs) ==
    <<Fr_ZERO,
      IF Len(inputs) >= 1 THEN inputs[1] ELSE Fr_ZERO,
      IF Len(inputs) >= 2 THEN inputs[2] ELSE Fr_ZERO>>

\* poseidon_t3 for at most two inputs (it panics on more)
poseidon_t3(inputs) ==
    Bind(full_rounds(<<initial_state(inputs), 0>>, N_ROUNDS_F \div 2), LAMBDA first :
    Bind(partial_rounds(first, N_ROUNDS_P), LAMBDA middle :
         full_rounds(middle, N_ROUNDS_F \div 2)[1][1]))

\* poseidon_hash2
poseidon_hash2(left, right) ==
    Bind(Fr_from_str(left), LAMBDA a :
    Bind(Fr_from_str(right), LAMBDA b :
    Bind(poseidon_t3(<<a, b>>), LAMBDA result : Fr_to_string(result))))

\* poseidon_hash4
poseidon_hash4(a, b, c, d) ==
    Bind(poseidon_hash2(a, b), LAMBDA h1 :
    Bind(poseidon_hash2(c, d), LAMBDA h2 : poseidon_hash2(h1, h2)))

\* compute_commitment
compute_commitment(nullifier, secret, amount, asset_id) ==
    poseidon_hash4(nullifier, secret, amount, asset_id)

\* leaf_index.to_string() of a u64: its decimal digits
RECURSIVE u64_to_string(_)
u64_to_string(n) ==
    IF n < 10 THEN <<Digit(n)>> ELSE u64_to_string(n \div 10) \o <<Digit(n % 10)>>

\* compute_nullifier_hash hashing the leaf index before the nullifier
compute_nullifier_hash_index_first(nullifier, leaf_index) ==
    poseidon_hash2(u64_to_string(leaf_index), nullifier)

\* compute_nullifier_hash
compute_nullifier_hash(nullifier, leaf_index) ==
    poseidon_hash2(nullifier, u64_to_string(leaf_index))

\* test_vectors::HASH_1_2: Poseidon(1, 2) of circomlibjs
HASH_1_2 ==
    <<"7", "8", "5", "3", "2", "0", "0", "1", "2", "0", "7", "7", "6",
      "0", "6", "2", "8", "7", "8", "6", "8", "4", "7", "9", "8", "3",
      "6", "4", "0", "9", "5", "0", "7", "2", "4", "5", "8", "8", "1",
      "5", "0", "2", "9", "3", "7", "6", "0", "9", "2", "7", "3", "2",
      "0", "0", "9", "2", "4", "9", "4", "1", "4", "9", "2", "6", "3",
      "2", "7", "4", "5", "9", "8", "1", "3", "5", "3", "0">>

\* test_vectors::HASH_0_0: Poseidon(0, 0)
HASH_0_0 ==
    <<"1", "4", "7", "4", "4", "2", "6", "9", "6", "1", "9", "9", "6",
      "6", "4", "1", "1", "2", "0", "8", "5", "7", "9", "2", "1", "1",
      "8", "2", "4", "5", "9", "8", "4", "5", "8", "6", "9", "7", "5",
      "8", "7", "4", "9", "4", "3", "5", "4", "9", "2", "6", "7", "6",
      "0", "0", "8", "1", "7", "7", "1", "3", "2", "5", "0", "7", "5",
      "7", "4", "1", "1", "4", "2", "8", "2", "9", "1", "5", "6">>

\* test_vectors::EMPTY_TREE_ZEROS[2]: the hash of HASH_0_0 with itself
EMPTY_TREE_ZEROS_2 ==
    <<"7", "4", "2", "3", "2", "3", "7", "0", "6", "5", "2", "2", "6",
      "3", "4", "7", "3", "2", "4", "3", "5", "3", "3", "8", "0", "7",
      "7", "2", "3", "6", "7", "3", "8", "2", "6", "3", "1", "4", "9",
      "0", "0", "1", "4", "9", "8", "9", "3", "4", "8", "4", "9", "5",
      "4", "8", "1", "8", "1", "1", "1", "6", "4", "1", "6", "4", "1",
      "5", "9", "2", "5", "5", "4", "7", "4", "6", "5", "7">>

\* ------------------------------------------------------------------------
\* Calls of the Poseidon functions, one per behaviour
\* ------------------------------------------------------------------------
\* inputs of poseidon_t3
T3Inputs == {<<RMinusOne, FrX>>}

\* arguments of poseidon_hash2: those of the vectors of circomlibjs
Hash2Args == {<<(<<"1">>), (<<"2">>)>>, <<(<<"0">>), (<<"0">>)>>, <<HASH_0_0, HASH_0_0>>}

\* arguments of poseidon_hash4 and compute_commitment
Hash4Args == {<<(<<"1">>), (<<"2">>), (<<"3">>), (<<"4">>)>>}

CommitmentArgs == {<<(<<"1">>), (<<"2">>), (<<"3">>), (<<"4">>)>>}

\* arguments of compute_nullifier_hash: a nullifier and a leaf index
NullifierHashArgs == {<<(<<"1">>), 2>>, <<(<<"5">>), 10>>}

\* elements of the states given to mds_multiply_t3
MdsWords == {Fr_ZERO, Fr_ONE, RMinusOne, FrX}

\* arguments of Fr::to_string: the operands of the arithmetic, the entries
\* of the MDS matrix and the constants of the first ten rounds
ToStringWords ==
    FrWords \cup MulWords \cup {M_T3_FR[i][j] : i \in 1..T, j \in 1..T}
        \cup {C_T3_FR[i] : i \in 1..(10 * T)}

PoseidonJobs ==
    {[fn |-> "poseidon_t3", inputs |-> i] : i \in T3Inputs}
        \cup {[fn |-> "poseidon_hash2", left |-> h[1], right |-> h[2]] : h \in Hash2Args}
        \cup {[fn |-> "mds_multiply_t3", state |-> <<s0, s1, s2>>] :
                  s0 \in MdsWords, s1 \in MdsWords, s2 \in MdsWords}

CommitmentJobs ==
    {[fn |-> "poseidon_hash4", a |-> h[1], b |-> h[2], c |-> h[3], d |-> h[4]] :
         h \in Hash4Args}
        \cup {[fn |-> "compute_commitment", nullifier |-> h[1], secret |-> h[2],
               amount |-> h[3], asset_id |-> h[4]] : h \in CommitmentArgs}
        \cup {[fn |-> "compute_nullifier_hash", nullifier |-> h[1], leaf_index |-> h[2]] :
                  h \in NullifierHashArgs}
        \cup {[fn |-> "Fr::to_string", a |-> a] : a \in ToStringWords}

InitPoseidon ==
    /\ job \in PoseidonJobs
    /\ returned = <<>>
    /\ key_json = <<>>
    /\ vk = <<>>
    /\ call = <<>>
    /\ ret = "none"
    /\ calls = <<>>
    /\ vk_x = <<>>
    /\ TemplatesIdle

InitCommitment ==
    /\ job \in CommitmentJobs
    /\ returned = <<>>
    /\ key_json = <<>>
    /\ vk = <<>>
    /\ call = <<>>
    /\ ret = "none"
    /\ calls = <<>>
    /\ vk_x = <<>>
    /\ TemplatesIdle

\* Fr::to_string
FrToString ==
    /\ job.fn = "Fr::to_string"
    /\ returned = <<>>
    /\ \E c \in {Fr_to_string(job.a)} : returned' = <<c>>
    /\ UNCHANGED <<job, key_json, vk, call, ret, calls, vk_x, cvars, mvars, hvars, pvars>>

\* poseidon_t3
PoseidonT3 ==
    /\ job.fn = "poseidon_t3"
    /\ returned = <<>>
    /\ \E c \in {poseidon_t3(job.inputs)} : returned' = <<c>>
    /\ UNCHANGED <<job, key_json, vk, call, ret, calls, vk_x, cvars, mvars, hvars, pvars>>

\* poseidon_hash2
PoseidonHash2 ==
    /\ job.fn = "poseidon_hash2"
    /\ returned = <<>>
    /\ \E c \in {poseidon_hash2(job.left, job.right)} : returned' = <<c>>
    /\ UNCHANGED <<job, key_json, vk, call, ret, calls, vk_x, cvars, mvars, hvars, pvars>>

\* poseidon_hash4
PoseidonHash4 ==
    /\ job.fn = "poseidon_hash4"
    /\ returned = <<>>
    /\ \E c \in {poseidon_hash4(job.a, job.b, job.c, job.d)} : returned' = <<c>>
    /\ UNCHANGED <<job, key_json, vk, call, ret, calls, vk_x, cvars, mvars, hvars, pvars>>

\* compute_commitment
ComputeCommitment ==
    /\ job.fn = "compute_commitment"
    /\ returned = <<>>
    /\ \E c \in {compute_commitment(job.nullifier, job.secret, job.amount, job.asset_id)} :
           returned' = <<c>>
    /\ UNCHANGED <<job, key_json, vk, call, ret, calls, vk_x, cvars, mvars, hvars, pvars>>

\* compute_nullifier_hash
ComputeNullifierHash ==
    /\ job.fn = "compute_nullifier_hash"
    /\ returned = <<>>
    /\ \E c \in {compute_nullifier_hash(job.nullifier, job.leaf_index)} : returned' = <<c>>
    /\ UNCHANGED <<job, key_json, vk, call, ret, calls, vk_x, cvars, mvars, hvars, pvars>>

\* mds_multiply_t3 with the precomputed matrix
MdsMultiplyT3 ==
    /\ job.fn = "mds_multiply_t3"
    /\ returned = <<>>
    /\ \E c \in {mds_multiply_t3(job.state, M_T3_FR)} : returned' = <<c>>
    /\ UNCHANGED <<job, key_json, vk, call, ret, calls, vk_x, cvars, mvars, hvars, pvars>>

NextPoseidon ==
    \/ PoseidonT3
    \/ PoseidonHash2
    \/ MdsMultiplyT3

SpecPoseidon == InitPoseidon /\ [][NextPoseidon]_vars

NextCommitment ==
    \/ PoseidonHash4
    \/ ComputeCommitment
    \/ ComputeNullifierHash
    \/ FrToString

SpecCommitment == InitCommitment /\ [][NextCommitment]_vars

\* ------------------------------------------------------------------------
\* The hash written on field elements, for the properties
\* ------------------------------------------------------------------------
\* the hash of two field elements as a decimal string, with no string on the
\* way in
HashOfElements(a, b) == Fr_to_string(poseidon_t3(<<a, b>>))

\* the hash of (the hash of a and b, the hash of c and d), on field elements
\* from the leaves to the root
TreeOfElements(a, b, c, d) ==
    Bind(poseidon_t3(<<a, b>>), LAMBDA h1 :
    Bind(poseidon_t3(<<c, d>>), LAMBDA h2 : HashOfElements(h1, h2)))

\* C27: poseidon_hash4(a, b, c, d) is the hash of the two hashes of (a, b)
\* and (c, d), compute_commitment is poseidon_hash4 of its arguments in
\* their order, and compute_nullifier_hash(nullifier, leaf_index) is the
\* hash of the nullifier and of leaf_index written in decimal.
C27_HashComposition ==
    /\ FrDone("poseidon_hash4") =>
           returned[1] = TreeOfElements(Fr_from_str(job.a), Fr_from_str(job.b),
                                        Fr_from_str(job.c), Fr_from_str(job.d))
    /\ FrDone("compute_commitment") =>
           returned[1] = TreeOfElements(Fr_from_str(job.nullifier), Fr_from_str(job.secret),
                                        Fr_from_str(job.amount), Fr_from_str(job.asset_id))
    /\ FrDone("compute_nullifier_hash") =>
           /\ returned[1] = HashOfElements(Fr_from_str(job.nullifier),
                                           from_u64(U64(job.leaf_index)))
           /\ job.nullifier = <<"1">> /\ job.leaf_index = 2 => returned[1] = HASH_1_2

\* poseidon_hash4 has returned the hash of four different arguments
C27_Witness ==
    /\ FrDone("poseidon_hash4")
    /\ job.a = <<"1">>
    /\ job.d = <<"4">>
    /\ returned[1] = TreeOfElements(Fr_ONE, from_u64(U64(2)), from_u64(U64(3)), from_u64(U64(4)))

\* the sum over j of row[j] * s[j], modulo r
RowByState(row, s) ==
    Bind(Fr_mul(row[1], s[1]), LAMBDA p1 :
    Bind(Fr_mul(row[2], s[2]), LAMBDA p2 :
    Bind(Fr_mul(row[3], s[3]), LAMBDA p3 : ModAdd(ModAdd(p1, p2), p3))))

\* the same sum by additions only
RowByStateByAdditions(row, s) ==
    Bind(ModMul(row[1], s[1]), LAMBDA p1 :
    Bind(ModMul(row[2], s[2]), LAMBDA p2 :
    Bind(ModMul(row[3], s[3]), LAMBDA p3 : ModAdd(ModAdd(p1, p2), p3))))

\* round i of the permutation, counted from 0, on the state s: the three
\* constants from C[3i] on are added, x^5 is taken of all elements in the
\* first four and last four rounds and of s[0] only in the 57 rounds between,
\* and the state is multiplied by the matrix
PermutationRound(s, i) ==
    Bind(<<ModAdd(s[1], C_T3_FR[3 * i + 1]), ModAdd(s[2], C_T3_FR[3 * i + 2]),
           ModAdd(s[3], C_T3_FR[3 * i + 3])>>, LAMBDA a :
    Bind(IF i < 4 \/ i >= 61 THEN <<pow5(a[1]), pow5(a[2]), pow5(a[3])>>
         ELSE <<pow5(a[1]), a[2], a[3]>>, LAMBDA b :
         <<RowByState(M_T3_FR[1], b), RowByState(M_T3_FR[2], b), RowByState(M_T3_FR[3], b)>>))

\* the rounds lo..hi in order
RECURSIVE PermutationRounds(_, _, _)
PermutationRounds(s, lo, hi) ==
    IF lo = hi THEN PermutationRound(s, lo)
    ELSE Bind(PermutationRounds(s, lo, (lo + hi) \div 2), LAMBDA m :
              PermutationRounds(m, (lo + hi) \div 2 + 1, hi))

\* s[0] after the 65 rounds 0..64 from the state [0, a, b]
Permutation(a, b) == PermutationRounds(<<Fr_ZERO, a, b>>, 0, 64)[1]

\* C28: poseidon_t3 on (a, b) starts from [0, a, b], runs 65 rounds, 4 full,
\* 57 partial and 4 full, round i adding C[3i], C[3i + 1], C[3i + 2], then
\* taking x^5 of all elements (full) or of s[0] only (partial), then
\* multiplying by the MDS matrix; the 195 round constants are all used, and
\* s[0] is returned.
C28_RoundStructure ==
    /\ Len(C_T3_FR) = 195
    /\ T * (N_ROUNDS_F + N_ROUNDS_P) = Len(C_T3_FR)
    /\ FrDone("poseidon_t3") => returned[1] = Permutation(job.inputs[1], job.inputs[2])
    /\ FrDone("mds_multiply_t3") =>
           returned[1] = <<RowByStateByAdditions(M_T3_FR[1], job.state),
                           RowByStateByAdditions(M_T3_FR[2], job.state),
                           RowByStateByAdditions(M_T3_FR[3], job.state)>>

\* poseidon_t3 has returned the hash of two elements of 254 bits
C28_Witness ==
    /\ FrDone("poseidon_t3")
    /\ job.inputs = <<RMinusOne, FrX>>
    /\ Canonical(returned[1])
    /\ returned[1] # Fr_ZERO

\* C29: poseidon_hash2("1", "2"), poseidon_hash2("0", "0") and the hash of
\* the latter with itself are the values that circomlibjs gives.
C29_Vectors ==
    FrDone("poseidon_hash2") =>
        /\ job.left = <<"1">> /\ job.right = <<"2">> => returned[1] = HASH_1_2
        /\ job.left = <<"0">> /\ job.right = <<"0">> => returned[1] = HASH_0_0
        /\ job.left = HASH_0_0 /\ job.right = HASH_0_0 => returned[1] = EMPTY_TREE_ZEROS_2

\* the hash of Poseidon(0, 0) with itself has been returned
C29_Witness ==
    /\ FrDone("poseidon_hash2")
    /\ job.left = HASH_0_0
    /\ job.right = HASH_0_0
    /\ returned[1] = EMPTY_TREE_ZEROS_2

\* what to_string writes is read back by from_str as the same element
ToStringReadBack ==
    FrDone("Fr::to_string") =>
        /\ Fr_from_str(returned[1]) = job.a
        /\ job.a = RMinusOne => returned[1] = RMinusOneStr

====
